---------------------------- MODULE Spec2Model ----------------------------
(***************************************************************************)
(* The serve-mode session of the Bitwarden CLI: the HTTP routing layer of  *)
(* ServeCommand (src/src/commands/serve.command.ts) and the unlock         *)
(* protocol of UnlockCommand (src/unnamed/part_001).                       *)
(*                                                                         *)
(* The server is one JavaScript event loop.  A handler runs without        *)
(* interruption from one `await` to the next, so every action below is one *)
(* such synchronous segment: the code that runs when a request arrives, or *)
(* when an awaited promise settles, up to the next suspension.  Requests   *)
(* interleave at their awaits only.                                        *)
(*                                                                         *)
(* Collaborators that live outside the repository (crypto, storage, the    *)
(* remote API) are modelled at their interface: a hash is a function of    *)
(* the password, storage writes take effect when their promise settles and *)
(* do not fail, account lookup and key derivation may throw, the remote    *)
(* call may throw.  randomBytes yields a value it never yielded before.    *)
(***************************************************************************)
EXTENDS Integers, Sequences, FiniteSets, TLC

\* Number of HTTP requests the server receives in one run.
MaxRequests == 2

Requests == 1..MaxRequests

\* JavaScript null / undefined (an unset environment variable, a missing
\* body field, an absent header).  The empty string "" is a different value.
Null == "<null>"

\* The master password the account has on the server, and a former one.
ServerPassword == "correct"
OldPassword == "old"

\* Bodies of POST /unlock: req.body.password.
Passwords == {Null, "", ServerPassword, OldPassword}

\* A session token the client holds that this process did not generate.
ForeignToken == "foreign"

VARIABLES
    listening,      \* server.listen was called
    noInteraction,  \* process.env.BW_NOINTERACTION === 'true'
    session,        \* process.env.BW_SESSION
    unlockedKey,    \* the key cryptoService holds (setKey), Null when locked
    keyHash,        \* the key hash cryptoService stores (setKeyHash)
    nextBytes,      \* the next value cryptoFunctionService.randomBytes yields
    remoteUnlocked, \* passwords an unlock succeeded with through the remote path (history)
    req,            \* per request: the handler's locals and its history
    input,          \* the arguments and the vault one command invocation is given
    out             \* per command: the Response it returned and the calls it made

vars == <<listening, noInteraction, session, unlockedKey, keyHash, nextBytes, remoteUnlocked, req,
          input, out>>

-----------------------------------------------------------------------------
(* Pure functions *)

\* Utils.fromBufferToB64: an injective text encoding of the random bytes.
fromBufferToB64(bytes) == "b64:" \o ToString(bytes)

\* cryptoService.makeKey(password, email, kdf, kdfIterations) for the one
\* account of the process, when derivation yields a key.
makeKey(password) == "key:" \o password

\* cryptoService.hashPassword(password, key): a hash of the password salted
\* by the key.
hashPassword(password, key) == "hash:" \o key \o "/" \o password

\* The hash of a password under the key derived from it.
HashOf(password) == hashPassword(password, makeKey(password))

\* Variant: the test without its `password === ''` half.
PasswordMissing_OnlyNull(password) == password = Null

\* The `password == null || password === ''` test of UnlockCommand.run.
PasswordMissing(password) == password = Null \/ password = ""

\* Variant: the middleware assigns whatever the header is.
SessionMiddleware_AlwaysAssign(current, sessionHeader) == sessionHeader

\* The session middleware: a non-empty Session header becomes BW_SESSION.
SessionMiddleware(current, sessionHeader) ==
    IF sessionHeader # Null /\ sessionHeader # "" THEN sessionHeader ELSE current

\* Tokens generated so far by this process.
Issued == { fromBufferToB64(b) : b \in 1..(nextBytes - 1) }

\* Values a client may send in the Session header.
Headers == {Null, "", ForeignToken} \cup Issued

-----------------------------------------------------------------------------
(* Requests *)

IdleRequest ==
    [ kind          |-> "none",   \* "unlock", "lock", "status"
      pc            |-> "idle",   \* where the handler is suspended
      password      |-> Null,     \* run's parameter
      key           |-> Null,     \* run's local `key`
      passwordValid |-> FALSE,    \* run's local `passwordValid`
      rb            |-> "none",   \* setNewSessionKey: "none", "pending", "done"
      outcome       |-> "none",   \* the Response returned
      raw           |-> Null,     \* res.raw
      \* history, read by the properties only
      generated     |-> Null,     \* the token this request's setNewSessionKey published
      tokBefore     |-> Null,     \* BW_SESSION when run was entered, while run is in progress
      afterRemoteOk |-> FALSE,    \* arrived after a remote-path success with this password
      prompted      |-> FALSE,    \* the inquirer prompt was shown
      derivation    |-> "none",   \* makeKey: "none", "called", "key", "null"
      localResult   |-> "none",   \* compareAndUpdateKeyHash: "none", "called", "match", "mismatch"
      remoteCalls   |-> 0,        \* calls of postAccountVerifyPassword
      remoteResult  |-> "none",   \* postAccountVerifyPassword: "none", "called", "ok", "threw"
      wroteKeyHash  |-> FALSE,    \* this request's setKeyHash took effect
      storedKey     |-> FALSE ]   \* this request's setKey took effect

\* No command has been invoked.
NoInput == [command |-> "none"]
NoOutput == <<>>

TypeOK ==
    /\ listening \in BOOLEAN
    /\ noInteraction \in BOOLEAN
    /\ nextBytes \in 1..(MaxRequests + 1)
    /\ remoteUnlocked \subseteq Passwords
    /\ \A r \in Requests : req[r].pc \in
          {"idle", "prompt", "lookup", "makeKey", "compare", "verify",
           "setKeyHash", "setKey", "done", "fault"}

Init ==
    /\ listening = FALSE
    /\ noInteraction \in BOOLEAN
    /\ session = Null
    /\ unlockedKey = Null
    /\ keyHash \in {Null, HashOf(ServerPassword), HashOf(OldPassword)}
    /\ nextBytes = 1
    /\ remoteUnlocked = {}
    /\ req = [r \in Requests |-> IdleRequest]
    /\ input = NoInput
    /\ out = NoOutput

\* ServeCommand.run: set the environment, register the routes, listen.
ServeRun ==
    /\ ~listening
    /\ listening' = TRUE
    /\ noInteraction' = TRUE
    /\ UNCHANGED <<session, unlockedKey, keyHash, nextBytes, remoteUnlocked, req>>
    /\ UNCHANGED <<input, out>>

\* Requests arrive in index order (they are interchangeable).
CanArrive(r) ==
    /\ listening
    /\ req[r].pc = "idle"
    /\ r > 1 => req[r - 1].pc # "idle"

-----------------------------------------------------------------------------
(* UnlockCommand.run, one operator per synchronous segment *)

\* run returns `outcome`: the handler's `await` resumes and processResponse
\* writes the response in the same turn of the event loop.
Finish(q, outcome) == [q EXCEPT !.pc = "done", !.outcome = outcome, !.tokBefore = Null]

\* An awaited collaborator throws outside any try block: run rejects, the
\* route handler rejects with it and processResponse is never reached.
Fault(q) == [q EXCEPT !.pc = "fault", !.tokBefore = Null]

\* Entry of run up to its first await: the prompt, the validation, the
\* call of setNewSessionKey (not awaited) and the call of getEmail.
UnlockCommandRun(q) ==
    IF PasswordMissing(q.password) /\ ~noInteraction
    THEN [q EXCEPT !.pc = "prompt", !.prompted = TRUE]
    ELSE IF PasswordMissing(q.password)
    THEN Finish(q, "badRequest")
    ELSE [q EXCEPT !.rb = "pending", !.pc = "lookup"]

\* Variant: setKey is called whatever passwordValid is.
AfterVerification_AlwaysStore(q) == [q EXCEPT !.pc = "setKey"]

\* `if (passwordValid) { await setKey(key) ... } else { return error }`.
AfterVerification(q) ==
    IF q.passwordValid
    THEN [q EXCEPT !.pc = "setKey"]
    ELSE Finish(q, "invalid")

\* Variant: the remote call is made without testing passwordValid.
AfterCompare_AlwaysRemote(q) ==
    [q EXCEPT !.pc = "verify", !.remoteCalls = @ + 1, !.remoteResult = "called"]

\* `if (!passwordValid) { hashPassword; postAccountVerifyPassword }`.
AfterCompare(q) ==
    IF ~q.passwordValid
    THEN [q EXCEPT !.pc = "verify", !.remoteCalls = @ + 1, !.remoteResult = "called"]
    ELSE AfterVerification(q)

\* Variant: a throw of the remote call is retried once.
AfterPost_Retry(q) ==
    IF q.remoteResult = "threw" /\ q.remoteCalls < 2
    THEN [q EXCEPT !.pc = "verify", !.remoteCalls = @ + 1, !.remoteResult = "called"]
    ELSE IF q.remoteResult = "threw" THEN AfterVerification(q)
    ELSE [q EXCEPT !.passwordValid = TRUE, !.pc = "setKeyHash"]

\* Variant: the try block without `await setKeyHash(keyHash)`.
AfterPost_SkipSetKeyHash(q) ==
    IF q.remoteResult = "threw"
    THEN AfterVerification(q)
    ELSE AfterVerification([q EXCEPT !.passwordValid = TRUE])

\* The try block: on return `passwordValid = true; await setKeyHash(keyHash)`,
\* on a throw the empty catch.
AfterPost(q) ==
    IF q.remoteResult = "threw"
    THEN AfterVerification(q)
    ELSE [q EXCEPT !.passwordValid = TRUE, !.pc = "setKeyHash"]

-----------------------------------------------------------------------------
(* Actions *)

\* POST /unlock arrives: the session middleware, then the route handler
\* calls unlockCommand.run, which runs to its first await.
PostUnlock(r, sessionHeader, password) ==
    /\ CanArrive(r)
    /\ LET tok == SessionMiddleware(session, sessionHeader)
           q == [req[r] EXCEPT !.kind = "unlock", !.password = password,
                               !.tokBefore = tok,
                               !.afterRemoteOk = (password \in remoteUnlocked)]
       IN /\ session' = tok
          /\ req' = [req EXCEPT ![r] = UnlockCommandRun(q)]
    /\ UNCHANGED <<listening, noInteraction, unlockedKey, keyHash, nextBytes, remoteUnlocked>>
    /\ UNCHANGED <<input, out>>

\* setNewSessionKey after its await: randomBytes has settled, the encoded
\* bytes become BW_SESSION.  run does not await this promise, so the step
\* is ordered only after the call.
setNewSessionKey(r) ==
    /\ req[r].rb = "pending"
    /\ session' = fromBufferToB64(nextBytes)
    /\ nextBytes' = nextBytes + 1
    /\ req' = [req EXCEPT ![r].rb = "done", ![r].generated = fromBufferToB64(nextBytes)]
    /\ UNCHANGED <<listening, noInteraction, unlockedKey, keyHash, remoteUnlocked>>
    /\ UNCHANGED <<input, out>>

\* getEmail, getKdf and getKdfIterations settle; makeKey is called.
AccountLookup(r) ==
    /\ req[r].pc = "lookup"
    /\ \E threw \in BOOLEAN :
         req' = [req EXCEPT ![r] =
                   IF threw THEN Fault(@)
                   ELSE [@ EXCEPT !.pc = "makeKey", !.derivation = "called"]]
    /\ UNCHANGED <<listening, noInteraction, session, unlockedKey, keyHash, nextBytes, remoteUnlocked>>
    /\ UNCHANGED <<input, out>>

\* Variant: the derived key is stored as soon as makeKey settles.
MakeKey_StoresKey(r) ==
    /\ req[r].pc = "makeKey"
    /\ \E result \in {"key", "null", "threw"} :
         LET q == req[r]
         IN req' = [req EXCEPT ![r] =
                      CASE result = "threw" -> Fault(q)
                        [] result = "null"  -> AfterVerification([q EXCEPT !.derivation = "null"])
                        [] OTHER -> [q EXCEPT !.key = makeKey(q.password), !.derivation = "key",
                                              !.pc = "compare", !.localResult = "called"]]
    /\ unlockedKey' = req'[r].key
    /\ UNCHANGED <<listening, noInteraction, session, keyHash, nextBytes, remoteUnlocked>>
    /\ UNCHANGED <<input, out>>

\* makeKey settles: `if (key != null)` calls compareAndUpdateKeyHash.
MakeKey(r) ==
    /\ req[r].pc = "makeKey"
    /\ \E result \in {"key", "null", "threw"} :
         LET q == req[r]
         IN req' = [req EXCEPT ![r] =
                      CASE result = "threw" -> Fault(q)
                        [] result = "null"  -> AfterVerification([q EXCEPT !.derivation = "null"])
                        [] OTHER -> [q EXCEPT !.key = makeKey(q.password), !.derivation = "key",
                                              !.pc = "compare", !.localResult = "called"]]
    /\ UNCHANGED <<listening, noInteraction, session, unlockedKey, keyHash, nextBytes, remoteUnlocked>>
    /\ UNCHANGED <<input, out>>

\* compareAndUpdateKeyHash settles: true iff the stored hash is the hash of
\* the password under the candidate key.
CompareAndUpdateKeyHash(r) ==
    /\ req[r].pc = "compare"
    /\ LET q == req[r]
           match == keyHash # Null /\ keyHash = hashPassword(q.password, q.key)
       IN req' = [req EXCEPT ![r] =
                    AfterCompare([q EXCEPT !.passwordValid = match,
                                           !.localResult = IF match THEN "match" ELSE "mismatch"])]
    /\ UNCHANGED <<listening, noInteraction, session, unlockedKey, keyHash, nextBytes, remoteUnlocked>>
    /\ UNCHANGED <<input, out>>

\* postAccountVerifyPassword settles: it returns when the server accepts
\* the hash, and throws on a rejection or a transport failure.
PostAccountVerifyPassword(r) ==
    /\ req[r].pc = "verify"
    /\ \E transportOk \in BOOLEAN :
         LET q == req[r]
             accepted == transportOk /\ hashPassword(q.password, q.key) = HashOf(ServerPassword)
         IN req' = [req EXCEPT ![r] =
                      AfterPost([q EXCEPT !.remoteResult = IF accepted THEN "ok" ELSE "threw"])]
    /\ UNCHANGED <<listening, noInteraction, session, unlockedKey, keyHash, nextBytes, remoteUnlocked>>
    /\ UNCHANGED <<input, out>>

\* setKeyHash settles; the try block ends and `if (passwordValid)` is reached.
SetKeyHash(r) ==
    /\ req[r].pc = "setKeyHash"
    /\ keyHash' = hashPassword(req[r].password, req[r].key)
    /\ req' = [req EXCEPT ![r] = AfterVerification([@ EXCEPT !.wroteKeyHash = TRUE])]
    /\ UNCHANGED <<listening, noInteraction, session, unlockedKey, nextBytes, remoteUnlocked>>
    /\ UNCHANGED <<input, out>>

\* setKey settles; the response is built from BW_SESSION and returned.
SetKey(r) ==
    /\ req[r].pc = "setKey"
    /\ unlockedKey' = req[r].key
    /\ req' = [req EXCEPT ![r] =
                 [@ EXCEPT !.pc = "done", !.outcome = "success", !.storedKey = TRUE,
                           !.raw = session, !.tokBefore = Null]]
    /\ remoteUnlocked' = IF req[r].remoteResult = "ok"
                         THEN remoteUnlocked \cup {req[r].password}
                         ELSE remoteUnlocked
    /\ UNCHANGED <<listening, noInteraction, session, keyHash, nextBytes>>
    /\ UNCHANGED <<input, out>>

\* Variant: a lock that leaves the key in place.
LockCommandRun_KeepsKey(key) == key

\* lockCommand.run (spec 4.2, lock()): clears the unlocked key and leaves
\* BW_SESSION alone.
LockCommandRun(key) == Null

\* POST /lock arrives: the session middleware, then the route handler.
PostLock(r, sessionHeader) ==
    /\ CanArrive(r)
    /\ LET tok == SessionMiddleware(session, sessionHeader)
       IN /\ session' = tok
          /\ unlockedKey' = LockCommandRun(unlockedKey)
          /\ req' = [req EXCEPT ![r] =
                       [@ EXCEPT !.kind = "lock", !.pc = "done", !.outcome = "success"]]
    /\ UNCHANGED <<listening, noInteraction, keyHash, nextBytes, remoteUnlocked>>
    /\ UNCHANGED <<input, out>>

\* GET /status arrives: the session middleware, then a handler that reads.
GetStatus(r, sessionHeader) ==
    /\ CanArrive(r)
    /\ LET tok == SessionMiddleware(session, sessionHeader)
       IN /\ session' = tok
          /\ req' = [req EXCEPT ![r] =
                       [@ EXCEPT !.kind = "status", !.pc = "done", !.outcome = "success"]]
    /\ UNCHANGED <<listening, noInteraction, unlockedKey, keyHash, nextBytes, remoteUnlocked>>
    /\ UNCHANGED <<input, out>>

Next ==
    \/ ServeRun
    \/ \E r \in Requests, h \in Headers, p \in Passwords : PostUnlock(r, h, p)
    \/ \E r \in Requests : setNewSessionKey(r)
    \/ \E r \in Requests : AccountLookup(r)
    \/ \E r \in Requests : MakeKey(r)
    \/ \E r \in Requests : CompareAndUpdateKeyHash(r)
    \/ \E r \in Requests : PostAccountVerifyPassword(r)
    \/ \E r \in Requests : SetKeyHash(r)
    \/ \E r \in Requests : SetKey(r)
    \/ \E r \in Requests, h \in Headers : PostLock(r, h)
    \/ \E r \in Requests, h \in Headers : GetStatus(r, h)

Spec == Init /\ [][Next]_vars

-----------------------------------------------------------------------------
(* Properties *)

\* The request's run has returned a Response.
Returned(r) == req[r].pc = "done"

\* C1: every unlock attempt with a non-empty password has published its
\* fresh token before key derivation and verification begin, and when the
\* attempt ends (valid or invalid) BW_SESSION differs from its value when
\* the attempt began.
C1_TokenRegeneratedBeforeVerification ==
    [][ \A r \in Requests :
          /\ (req'[r].kind = "unlock" /\ req'[r].derivation # "none")
                => req'[r].rb = "done"
          /\ (req[r].kind = "unlock" /\ ~Returned(r)
              /\ req'[r].pc = "done" /\ req'[r].outcome \in {"success", "invalid"})
                => session' # req[r].tokBefore ]_vars

\* An attempt is in flight from its token publication to its end.
InFlight(r) ==
    /\ req[r].kind = "unlock"
    /\ req[r].rb = "done"
    /\ req[r].pc \notin {"done", "fault"}

\* C2: at most one unlock attempt is between its token publication and its
\* key storage or failure at any time.
C2_UnlockAttemptsSerialized ==
    Cardinality({ r \in Requests : InFlight(r) }) <= 1

\* C3: the token a successful unlock returns in `raw` is the token that
\* same attempt generated, and it is BW_SESSION at the moment the key is
\* stored.
C3_RawIsOwnToken ==
    [][ \A r \in Requests :
          /\ (req'[r].kind = "unlock" /\ req'[r].outcome = "success")
                => (req'[r].rb = "done" /\ req'[r].raw = req'[r].generated)
          /\ (~req[r].storedKey /\ req'[r].storedKey)
                => req'[r].raw = session' ]_vars

\* The attempt's own verification succeeded.
Verified(r) == req[r].localResult = "match" \/ req[r].remoteResult = "ok"

\* C4: a key is stored only by an unlock attempt whose own verification
\* succeeded (local match or remote acceptance); no attempt that ended in a
\* validation error, a failed derivation or an invalid password stored one,
\* and the key held is the key of such a verified attempt.
C4_KeyStoredOnlyAfterVerification ==
    /\ \A r \in Requests :
         /\ req[r].storedKey => (req[r].kind = "unlock" /\ Verified(r))
         /\ (req[r].outcome \in {"badRequest", "invalid"} \/ req[r].pc = "fault"
             \/ req[r].derivation = "null")
               => ~req[r].storedKey
    /\ unlockedKey # Null =>
         \E r \in Requests : req[r].storedKey /\ Verified(r) /\ req[r].key = unlockedKey

C4_Witness ==
    \E r1, r2 \in Requests :
        /\ req[r1].storedKey /\ req[r1].remoteResult = "ok" /\ unlockedKey = req[r1].key
        /\ req[r2].kind = "unlock" /\ req[r2].outcome = "invalid"

\* C5 (as claimed): when an unlock attempt ends with a failed verification
\* no unlocked key is held, whatever the session state was before.
C5_LockedAfterFailedUnlock ==
    [][ \A r \in Requests :
          (~Returned(r) /\ req'[r].kind = "unlock"
           /\ req'[r].pc = "done" /\ req'[r].outcome = "invalid")
             => unlockedKey' = Null ]_vars

\* C5 (amended): a failed unlock attempt leaves the unlocked key as it is.
\* Every step of an unlock attempt other than the settling of its setKey
\* leaves unlockedKey unchanged, and an attempt that ends invalid never
\* reached setKey: the session is Locked after it exactly when it was
\* Locked before the step that ended it.
C5_FailedUnlockLeavesKey ==
    [][ \A r \in Requests :
          /\ (req'[r] # req[r] /\ req'[r].kind = "unlock"
              /\ req'[r].storedKey = req[r].storedKey)
                => unlockedKey' = unlockedKey
          /\ (req'[r].kind = "unlock" /\ req'[r].outcome = "invalid")
                => ~req'[r].storedKey ]_vars

C5_Witness ==
    \E r1, r2 \in Requests :
        /\ req[r1].kind = "unlock" /\ req[r1].outcome = "invalid"
        /\ req[r1].remoteResult = "threw"
        /\ req[r2].storedKey /\ unlockedKey = req[r2].key /\ unlockedKey # Null

\* C6: in an attempt where a key was derived, a local hash match makes zero
\* calls of the remote verification endpoint and a local mismatch makes
\* exactly one.
C6_RemoteCallCount ==
    \A r \in Requests :
        /\ req[r].localResult = "match" => req[r].remoteCalls = 0
        /\ req[r].localResult = "mismatch" => req[r].remoteCalls = 1
        /\ req[r].remoteCalls > 0 => req[r].localResult = "mismatch"

C6_Witness ==
    \E r1, r2 \in Requests :
        /\ Returned(r1) /\ req[r1].localResult = "match" /\ req[r1].remoteCalls = 0
        /\ Returned(r2) /\ req[r2].localResult = "mismatch" /\ req[r2].remoteCalls = 1

C8_FailedVerificationChangesNothing ==
    \A r \in Requests :
        /\ req[r].remoteResult = "threw" =>
             /\ Returned(r) /\ req[r].outcome = "invalid"
             /\ req[r].remoteCalls = 1
             /\ ~req[r].wroteKeyHash /\ ~req[r].storedKey
        /\ req[r].derivation = "null" =>
             /\ Returned(r) /\ req[r].outcome = "invalid"
             /\ req[r].localResult = "none" /\ req[r].remoteCalls = 0
             /\ ~req[r].wroteKeyHash /\ ~req[r].storedKey
        /\ req[r].wroteKeyHash => req[r].remoteResult = "ok"

C8_Witness ==
    \E r1, r2 \in Requests :
        /\ req[r1].remoteResult = "threw" /\ req[r1].outcome = "invalid"
        /\ req[r2].derivation = "null" /\ req[r2].outcome = "invalid"

\* C9: POST /unlock with a null or empty password returns the bad-request
\* outcome (not the invalid-credentials one) in the turn it arrives, with no
\* prompt, no token generation, no derivation, no comparison and no remote
\* call; the unlocked key and the key hash are unchanged and BW_SESSION is
\* what the session middleware left (unchanged without a Session header).
C9_MissingPasswordRejected ==
    [][ \A r \in Requests, h \in Headers, p \in {Null, ""} :
          PostUnlock(r, h, p) =>
            /\ req'[r].pc = "done"
            /\ req'[r].outcome = "badRequest" /\ req'[r].outcome # "invalid"
            /\ ~req'[r].prompted
            /\ req'[r].rb = "none"
            /\ req'[r].derivation = "none"
            /\ req'[r].localResult = "none"
            /\ req'[r].remoteCalls = 0
            /\ unlockedKey' = unlockedKey
            /\ keyHash' = keyHash
            /\ session' = (IF h = Null \/ h = "" THEN session ELSE h) ]_vars

C9_Witness ==
    \E r \in Requests :
        /\ req[r].kind = "unlock" /\ req[r].outcome = "badRequest"
        /\ req[r].password = ""
        /\ unlockedKey # Null /\ keyHash # Null /\ session # Null

\* C10: POST /lock leaves no unlocked key and leaves BW_SESSION what it was
\* when the lock handler was entered (the value before the request when it
\* carries no Session header).
C10_LockClearsKeyKeepsToken ==
    [][ \A r \in Requests, h \in Headers :
          PostLock(r, h) =>
            /\ unlockedKey' = Null
            /\ session' = (IF h = Null \/ h = "" THEN session ELSE h) ]_vars

C10_Witness ==
    \E r1, r2 \in Requests :
        /\ req[r1].storedKey
        /\ req[r2].kind = "lock" /\ Returned(r2)
        /\ unlockedKey = Null
        /\ session # Null /\ session = req[r1].raw

-----------------------------------------------------------------------------
(* Strings of the command layer.  An identifier, a name or a file name is  *)
(* a sequence of one-character strings, so that case folding, trimming,    *)
(* substring search and the id pattern are computed character by character.*)

\* null / undefined where a string is expected.
NoString == <<Null>>

UpperCase == <<"A", "B", "C", "D", "E", "F", "G", "H", "I", "J", "K", "L", "M",
               "N", "O", "P", "Q", "R", "S", "T", "U", "V", "W", "X", "Y", "Z">>
LowerCase == <<"a", "b", "c", "d", "e", "f", "g", "h", "i", "j", "k", "l", "m",
               "n", "o", "p", "q", "r", "s", "t", "u", "v", "w", "x", "y", "z">>

\* String.prototype.toLowerCase.
toLowerCase(s) ==
    [i \in 1..Len(s) |->
        IF \E k \in DOMAIN UpperCase : UpperCase[k] = s[i]
        THEN LowerCase[CHOOSE k \in DOMAIN UpperCase : UpperCase[k] = s[i]]
        ELSE s[i]]

\* String.prototype.indexOf: the first offset (from 0) at which `search`
\* occurs in s, -1 when it occurs nowhere.
indexOf(s, search) ==
    LET offsets == { i \in 0..(Len(s) - Len(search)) :
                       SubSeq(s, i + 1, i + Len(search)) = search }
    IN IF offsets = {} THEN -1
       ELSE CHOOSE i \in offsets : \A j \in offsets : i <= j

WhiteSpace == {" ", "\t"}

RECURSIVE trimStart(_)
trimStart(s) ==
    IF s # <<>> /\ Head(s) \in WhiteSpace THEN trimStart(Tail(s)) ELSE s

RECURSIVE trimEnd(_)
trimEnd(s) ==
    IF s # <<>> /\ s[Len(s)] \in WhiteSpace
    THEN trimEnd(SubSeq(s, 1, Len(s) - 1)) ELSE s

\* String.prototype.trim.
trim(s) == trimEnd(trimStart(s))

\* What a value reads as when JavaScript coerces it to a string.
String(x) == IF x = NoString THEN <<"n", "u", "l", "l">> ELSE x

HexDigit == {"0", "1", "2", "3", "4", "5", "6", "7", "8", "9",
             "a", "b", "c", "d", "e", "f", "A", "B", "C", "D", "E", "F"}

\* GetCommand.isGuid: the case-insensitive pattern
\* ^[0-9a-f]{8}-[0-9a-f]{4}-[1-5][0-9a-f]{3}-[89ab][0-9a-f]{3}-[0-9a-f]{12}$.
isGuid(id) ==
    LET s == String(id)
    IN /\ Len(s) = 36
       /\ \A i \in 1..36 :
            CASE i \in {9, 14, 19, 24} -> s[i] = "-"
              [] i = 15 -> s[i] \in {"1", "2", "3", "4", "5"}
              [] i = 20 -> s[i] \in {"8", "9", "a", "b", "A", "B"}
              [] OTHER  -> s[i] \in HexDigit

-----------------------------------------------------------------------------
(* The vault one command sees *)

\* Objects in the vault.
MaxItems == 3

Repeat(c, n) == [i \in 1..n |-> c]

\* An id in 8-4-4-4-12 groups: `c` everywhere but the version and variant
\* nibbles.
Guid(c, version, variant) ==
    Repeat(c, 8) \o <<"-">> \o Repeat(c, 4) \o <<"-">> \o <<version>> \o Repeat(c, 3)
      \o <<"-">> \o <<variant>> \o Repeat(c, 3) \o <<"-">> \o Repeat(c, 12)

\* The id of the i-th object of the vault (ids are stored in lower case).
ObjectIds == << Guid("a", "4", "8"), Guid("b", "1", "9"), Guid("c", "5", "a"),
                Guid("d", "2", "b"), Guid("e", "3", "8") >>

\* Display names; an object may have none.
Names == { NoString, <<"G", "i", "t">>, <<"g", "i">>, <<"B", "i", "t">> }

\* Identifiers of the canonical id shape: of an object, of an object in
\* upper case, of no object.
CanonicalIds == { ObjectIds[1], ObjectIds[2], Guid("A", "4", "8"), Guid("f", "4", "b") }

\* Identifiers that look like ids and are not: version 6, variant c, a
\* non-hex digit, one digit too many.
NearIds == { Guid("a", "6", "8"), Guid("a", "4", "c"), Guid("g", "4", "8"),
             ObjectIds[1] \o <<"0">> }

\* Search strings that are not blank.
Searches == { <<"g", "i">>, <<"G", "I">>, <<"i", "t">>, <<"B">>, <<"x">>, <<" ", "g">> }

\* Identifiers that are blank after trimming.
Blanks == { <<>>, <<" ">>, <<" ", "\t">> }

Identifiers == CanonicalIds \cup NearIds \cup Searches \cup Blanks

\* The vault as the decrypted listing returns it: objects in source order.
Vaults == UNION { [1..n -> Names] : n \in 0..MaxItems }

ObjectsOf(names) == [i \in 1..Len(names) |-> [id |-> ObjectIds[i], name |-> names[i]]]

\* No object: what a by-id lookup returns for an unknown id.
NoObject == [id |-> NoString, name |-> NoString]

\* cipherService.get / folderService.get / collectionService.get /
\* userService.getOrganization: the object stored under exactly this id.
getById(objects, id) ==
    IF \E i \in DOMAIN objects : objects[i].id = id
    THEN objects[CHOOSE i \in DOMAIN objects : objects[i].id = id]
    ELSE NoObject

idsOf(objects) == [i \in DOMAIN objects |-> objects[i].id]

-----------------------------------------------------------------------------
(* GetCommand and EditCommand: resolving an identifier to one object *)

\* Response.notFound(), Response.success(...), Response.multipleResults(ids),
\* Response.badRequest(...), Response.error(...).
notFound == [variant |-> "NotFound", ids |-> <<>>]
success(object) == [variant |-> "Found", ids |-> <<object.id>>]
multipleResults(ids) == [variant |-> "Ambiguous", ids |-> ids]
badRequest == [variant |-> "BadRequest", ids |-> <<>>]
error == [variant |-> "Error", ids |-> <<>>]
\* The handler threw instead of returning a response.
threw == [variant |-> "Threw", ids |-> <<>>]

\* What a handler did: its response, how many by-id lookups and how many
\* full listings it made, and the objects its search kept.
Did(response, lookups, listings, matched) ==
    [response |-> response, lookups |-> lookups, listings |-> listings,
     matched |-> matched]

\* Variant: the search compares without folding case.
searchFolders_CaseSensitive(folders, search) ==
    LET Test(f) == f.name # NoString /\ indexOf(f.name, search) > -1
    IN SelectSeq(folders, Test)

\* CliUtils.searchCiphers: the ciphers whose name contains the search,
\* case folded.
searchCiphers(ciphers, search) ==
    LET s == toLowerCase(search)
        Test(c) == c.name # NoString /\ indexOf(toLowerCase(c.name), s) > -1
    IN SelectSeq(ciphers, Test)

\* CliUtils.searchFolders.
searchFolders(folders, search) ==
    LET s == toLowerCase(search)
        Test(f) == f.name # NoString /\ indexOf(toLowerCase(f.name), s) > -1
    IN SelectSeq(folders, Test)

\* CliUtils.searchCollections.
searchCollections(collections, search) ==
    LET s == toLowerCase(search)
        Test(c) == c.name # NoString /\ indexOf(toLowerCase(c.name), s) > -1
    IN SelectSeq(collections, Test)

\* CliUtils.searchOrganizations.
searchOrganizations(organizations, search) ==
    LET s == toLowerCase(search)
        Test(o) == o.name # NoString /\ indexOf(toLowerCase(o.name), s) > -1
    IN SelectSeq(organizations, Test)

\* Variant: an id that names no cipher is then searched for as a name.
getCipher_SearchAfterLookup(id, vault) ==
    IF isGuid(id) /\ getById(vault, id) # NoObject
    THEN Did(success(getById(vault, id)), 1, 0, <<>>)
    ELSE IF id = NoString
    THEN Did(threw, 0, 0, <<>>)
    ELSE IF trim(id) # <<>>
    THEN LET ciphers == searchCiphers(vault, id)
         IN Did(IF Len(ciphers) > 1 THEN multipleResults(idsOf(ciphers))
                ELSE IF Len(ciphers) > 0 THEN success(ciphers[1])
                ELSE notFound, IF isGuid(id) THEN 1 ELSE 0, 1, ciphers)
    ELSE Did(notFound, 0, 0, <<>>)

\* Variant: every ambiguous result names its first two matches only.
getCipher_FirstTwo(id, vault) ==
    IF isGuid(id)
    THEN LET cipher == getById(vault, id)
         IN Did(IF cipher = NoObject THEN notFound ELSE success(cipher), 1, 0, <<>>)
    ELSE IF id = NoString
    THEN Did(threw, 0, 0, <<>>)
    ELSE IF trim(id) # <<>>
    THEN LET ciphers == searchCiphers(vault, id)
         IN Did(IF Len(ciphers) > 1 THEN multipleResults(idsOf(SubSeq(ciphers, 1, 2)))
                ELSE IF Len(ciphers) > 0 THEN success(ciphers[1])
                ELSE notFound, 0, 1, ciphers)
    ELSE Did(notFound, 0, 0, <<>>)

\* Variant: an identifier is blank only when it is empty.
getCipher_NoTrim(id, vault) ==
    IF isGuid(id)
    THEN LET cipher == getById(vault, id)
         IN Did(IF cipher = NoObject THEN notFound ELSE success(cipher), 1, 0, <<>>)
    ELSE IF id = NoString
    THEN Did(threw, 0, 0, <<>>)
    ELSE IF id # <<>>
    THEN LET ciphers == searchCiphers(vault, id)
         IN Did(IF Len(ciphers) > 1 THEN multipleResults(idsOf(ciphers))
                ELSE IF Len(ciphers) > 0 THEN success(ciphers[1])
                ELSE notFound, 0, 1, ciphers)
    ELSE Did(notFound, 0, 0, <<>>)

\* GetCommand.getCipher.
getCipher(id, vault) ==
    IF isGuid(id)
    THEN LET cipher == getById(vault, id)
         IN Did(IF cipher = NoObject THEN notFound ELSE success(cipher), 1, 0, <<>>)
    ELSE IF id = NoString
    THEN Did(threw, 0, 0, <<>>)
    ELSE IF trim(id) # <<>>
    THEN LET ciphers == searchCiphers(vault, id)
         IN Did(IF Len(ciphers) > 1 THEN multipleResults(idsOf(ciphers))
                ELSE IF Len(ciphers) > 0 THEN success(ciphers[1])
                ELSE notFound, 0, 1, ciphers)
    ELSE Did(notFound, 0, 0, <<>>)

\* GetCommand.getFolder.
getFolder(id, vault) ==
    IF isGuid(id)
    THEN LET folder == getById(vault, id)
         IN Did(IF folder = NoObject THEN notFound ELSE success(folder), 1, 0, <<>>)
    ELSE IF id = NoString
    THEN Did(threw, 0, 0, <<>>)
    ELSE IF trim(id) # <<>>
    THEN LET folders == searchFolders(vault, id)
         IN Did(IF Len(folders) > 1 THEN multipleResults(idsOf(folders))
                ELSE IF Len(folders) > 0 THEN success(folders[1])
                ELSE notFound, 0, 1, folders)
    ELSE Did(notFound, 0, 0, <<>>)

\* GetCommand.getCollection.
getCollection(id, vault) ==
    IF isGuid(id)
    THEN LET collection == getById(vault, id)
         IN Did(IF collection = NoObject THEN notFound ELSE success(collection), 1, 0, <<>>)
    ELSE IF id = NoString
    THEN Did(threw, 0, 0, <<>>)
    ELSE IF trim(id) # <<>>
    THEN LET collections == searchCollections(vault, id)
         IN Did(IF Len(collections) > 1 THEN multipleResults(idsOf(collections))
                ELSE IF Len(collections) > 0 THEN success(collections[1])
                ELSE notFound, 0, 1, collections)
    ELSE Did(notFound, 0, 0, <<>>)

\* Variant: organizations resolve to the first match, never to Ambiguous.
getOrganization_FirstMatch(id, vault) ==
    IF isGuid(id)
    THEN LET org == getById(vault, id)
         IN Did(IF org = NoObject THEN notFound ELSE success(org), 1, 0, <<>>)
    ELSE IF id = NoString
    THEN Did(threw, 0, 0, <<>>)
    ELSE IF trim(id) # <<>>
    THEN LET orgs == searchOrganizations(vault, id)
         IN Did(IF Len(orgs) > 0 THEN success(orgs[1]) ELSE notFound, 0, 1, orgs)
    ELSE Did(notFound, 0, 0, <<>>)

\* GetCommand.getOrganization.
getOrganization(id, vault) ==
    IF isGuid(id)
    THEN LET org == getById(vault, id)
         IN Did(IF org = NoObject THEN notFound ELSE success(org), 1, 0, <<>>)
    ELSE IF id = NoString
    THEN Did(threw, 0, 0, <<>>)
    ELSE IF trim(id) # <<>>
    THEN LET orgs == searchOrganizations(vault, id)
         IN Did(IF Len(orgs) > 1 THEN multipleResults(idsOf(orgs))
                ELSE IF Len(orgs) > 0 THEN success(orgs[1])
                ELSE notFound, 0, 1, orgs)
    ELSE Did(notFound, 0, 0, <<>>)

\* The kinds of object `get` resolves by identifier.
Objects == {"item", "folder", "collection", "organization"}

\* GetCommand.run, for the kinds resolved by identifier: the identifier is
\* folded to lower case, then handed to the kind's handler.
GetCommandRun(object, id, vault) ==
    LET lower == IF id # NoString THEN toLowerCase(id) ELSE id
    IN CASE object = "item"         -> getCipher(lower, vault)
         [] object = "folder"       -> getFolder(lower, vault)
         [] object = "collection"   -> getCollection(lower, vault)
         [] object = "organization" -> getOrganization(lower, vault)
         [] OTHER                   -> Did(badRequest, 0, 0, <<>>)

\* The kinds of object `edit` changes.
EditObjects == {"item", "folder"}

\* The encoded request of an edit: none, one that does not parse, one that
\* does.
RequestJsons == {"", "malformed", "encoded"}

\* EditCommand.editCipher: the cipher stored under the id, or not found;
\* then the save, and the cipher read back.
editCipher(id, vault, saved) ==
    LET cipher == getById(vault, id)
    IN IF cipher = NoObject THEN Did(notFound, 1, 0, <<>>)
       ELSE IF saved THEN Did(success(getById(vault, cipher.id)), 2, 0, <<>>)
       ELSE Did(error, 1, 0, <<>>)

\* EditCommand.editFolder.
editFolder(id, vault, saved) ==
    LET folder == getById(vault, id)
    IN IF folder = NoObject THEN Did(notFound, 1, 0, <<>>)
       ELSE IF saved THEN Did(success(getById(vault, folder.id)), 2, 0, <<>>)
       ELSE Did(error, 1, 0, <<>>)

\* EditCommand.run: the request comes from the argument or else from
\* standard input and must parse; the identifier is folded to lower case.
EditCommandRun(object, id, requestJson, stdin, saved, vault) ==
    LET json == IF requestJson = "" THEN stdin ELSE requestJson
        lower == IF id # NoString THEN toLowerCase(id) ELSE id
    IN IF json = "" THEN Did(badRequest, 0, 0, <<>>)
       ELSE IF json = "malformed" THEN Did(badRequest, 0, 0, <<>>)
       ELSE CASE object = "item"   -> editCipher(lower, vault, saved)
              [] object = "folder" -> editFolder(lower, vault, saved)
              [] OTHER             -> Did(badRequest, 0, 0, <<>>)

-----------------------------------------------------------------------------
(* One vault, one identifier, and the commands run on them *)

serveVars == <<listening, noInteraction, session, unlockedKey, keyHash, nextBytes,
               remoteUnlocked, req>>

\* The command line without the server: nothing listens, no request exists.
NotServing ==
    /\ listening = FALSE
    /\ noInteraction = FALSE
    /\ session = Null
    /\ unlockedKey = Null
    /\ keyHash = Null
    /\ nextBytes = 1
    /\ remoteUnlocked = {}
    /\ req = [r \in Requests |-> IdleRequest]

\* A command that has not run.
NotRun == Did([variant |-> "None", ids |-> <<>>], 0, 0, <<>>)

ResolveInit ==
    /\ NotServing
    /\ \E id \in Identifiers, names \in Vaults :
         input = [command |-> "resolve", id |-> id, vault |-> ObjectsOf(names)]
    /\ out = [get |-> [o \in Objects |-> NotRun], edit |-> [o \in EditObjects |-> NotRun]]

\* bw get <object> <id>
Get(object) ==
    /\ input.command = "resolve"
    /\ out.get[object] = NotRun
    /\ out' = [out EXCEPT !.get[object] = GetCommandRun(object, input.id, input.vault)]
    /\ UNCHANGED <<input, serveVars>>

\* bw edit <object> <id> [encodedJson]
Edit(object, requestJson, stdin, saved) ==
    /\ input.command = "resolve"
    /\ out.edit[object] = NotRun
    /\ out' = [out EXCEPT !.edit[object] =
                  EditCommandRun(object, input.id, requestJson, stdin, saved, input.vault)]
    /\ UNCHANGED <<input, serveVars>>

ResolveNext == \E object \in Objects : Get(object)

\* get on every kind of object, over every identifier and vault.
ResolveSpec == ResolveInit /\ [][ResolveNext]_vars

EditNext ==
    \/ \E object \in EditObjects : Get(object)
    \/ \E object \in EditObjects, requestJson \in RequestJsons, stdin \in RequestJsons,
          saved \in BOOLEAN : Edit(object, requestJson, stdin, saved)

\* get and edit of items and folders on the same identifier and vault.
EditSpec == ResolveInit /\ [][EditNext]_vars

-----------------------------------------------------------------------------
(* Properties of identifier resolution *)

\* `get` has run on this kind of object.
Ran(object) == out.get[object] # NotRun

\* s contains t: s is some prefix, then t, then some suffix.
Contains(s, t) ==
    \E i \in 0..Len(s) :
       /\ i + Len(t) <= Len(s)
       /\ s = SubSeq(s, 1, i) \o t \o SubSeq(s, i + Len(t) + 1, Len(s))

\* The objects of the vault that have one of these ids, in vault order.
Keeping(vault, ids) ==
    LET Kept(o) == \E k \in DOMAIN ids : ids[k] = o.id
    IN SelectSeq(vault, Kept)

\* C11: an identifier of the canonical id shape is resolved by exactly one
\* by-id lookup and no listing; when nothing is stored under it the result
\* is NotFound, and no search has kept anything.
C11_CanonicalIdIsLookedUpOnce ==
    \A o \in Objects :
       (Ran(o) /\ input.id \in CanonicalIds) =>
          LET d == out.get[o]
              stored == { i \in DOMAIN input.vault :
                            input.vault[i].id = toLowerCase(input.id) }
          IN /\ d.lookups = 1
             /\ d.listings = 0
             /\ d.matched = <<>>
             /\ IF stored = {} THEN d.response = notFound
                ELSE \E i \in stored :
                        d.response = [variant |-> "Found", ids |-> <<ObjectIds[i]>>]

\* A canonical id of no object was resolved against a vault that is not
\* empty, and was not found.
C11_Witness ==
    /\ Ran("item")
    /\ input.id = Guid("f", "4", "b")
    /\ Len(input.vault) = MaxItems
    /\ out.get["item"].response = notFound
    /\ out.get["item"].lookups = 1

\* The kinds whose search is CliUtils.searchFolders, searchCollections or
\* searchOrganizations.
SearchedObjects == {"folder", "collection", "organization"}

\* C12: for a search string that is neither an id nor blank, an object is
\* kept by the search if and only if it has a name and the name, in lower
\* case, contains the search string in lower case.
C12_MatchIsNameSubstring ==
    \A o \in SearchedObjects :
       (Ran(o) /\ input.id \in Searches \cup NearIds) =>
          \A i \in DOMAIN input.vault :
             (\E k \in DOMAIN out.get[o].matched : out.get[o].matched[k] = input.vault[i])
             <=> /\ input.vault[i].name # NoString
                 /\ Contains(toLowerCase(input.vault[i].name), toLowerCase(input.id))

\* An upper-case search kept a mixed-case name, rejected a name that does
\* not contain it and rejected an object with no name.
C12_Witness ==
    /\ Ran("folder")
    /\ input.id = <<"G", "I">>
    /\ \E i, j, k \in DOMAIN input.vault :
          /\ input.vault[i].name = <<"G", "i", "t">>
          /\ input.vault[j].name = <<"B", "i", "t">>
          /\ input.vault[k].name = NoString
    /\ Len(out.get["folder"].matched) = 1

\* C13: for a search string that is neither an id nor blank, no match gives
\* NotFound, one match gives Found with that object, and two or more give
\* Ambiguous with the ids of all the matches in the order of the vault.
C13_SearchOutcomeByMatchCount ==
    \A o \in Objects :
       (Ran(o) /\ input.id \in Searches \cup NearIds) =>
          LET d == out.get[o]
          IN /\ d.listings = 1
             /\ d.matched = Keeping(input.vault, idsOf(d.matched))
             /\ Len(d.matched) = 0 => d.response = notFound
             /\ Len(d.matched) = 1 =>
                   d.response = [variant |-> "Found", ids |-> <<d.matched[1].id>>]
             /\ Len(d.matched) >= 2 =>
                   /\ d.response.variant = "Ambiguous"
                   /\ d.response.ids = idsOf(d.matched)
                   /\ Keeping(input.vault, d.response.ids) = d.matched

\* A search matched three objects and the result names all three.
C13_Witness ==
    /\ Ran("item")
    /\ input.id = <<"i", "t">>
    /\ out.get["item"].response.variant = "Ambiguous"
    /\ Len(out.get["item"].response.ids) = 3

\* C14: an identifier that is blank after trimming, and so is no id, gives
\* NotFound without a by-id lookup and without a listing.
C14_BlankIsNotFound ==
    \A o \in Objects :
       (Ran(o) /\ input.id \in Blanks) =>
          /\ out.get[o].response = notFound
          /\ out.get[o].lookups = 0
          /\ out.get[o].listings = 0

\* An identifier of a space and a tab was resolved against a vault with a
\* named object.
C14_Witness ==
    /\ Ran("item")
    /\ input.id = <<" ", "\t">>
    /\ \E i \in DOMAIN input.vault : input.vault[i].name # NoString
    /\ out.get["item"].response = notFound

\* C15: the same identifier on the same (id, name) pairs gives the same
\* variant and the same id or ids whichever kind of object is resolved.
C15_SamePolicyForEveryKind ==
    \A o1, o2 \in Objects :
       (Ran(o1) /\ Ran(o2)) => out.get[o1].response = out.get[o2].response

\* All four kinds were resolved on an ambiguous search.
C15_Witness ==
    /\ \A o \in Objects : Ran(o)
    /\ input.id \in Searches
    /\ out.get["organization"].response.variant = "Ambiguous"
    /\ out.get["item"].response.variant = "Ambiguous"

\* C16: edit picks its target as get does: whenever edit got as far as
\* looking for its target and the save did not fail, its response names
\* the object get names, or is the NotFound or Ambiguous that get gives.
C16_EditResolvesAsGet ==
    \A o \in EditObjects :
       (/\ Ran(o)
        /\ out.edit[o] # NotRun
        /\ out.edit[o].response.variant \in {"Found", "NotFound", "Ambiguous"})
       => out.edit[o].response = out.get[o].response

-----------------------------------------------------------------------------
(* GetCommand.getAttachment: from an item and a selector to a saved file *)

\* Attachments of an item.
MaxAttachments == 3

\* The vault of the attachment commands: two named items.
ItemNames == << <<"G", "i", "t">>, <<"B", "i", "t">> >>

\* --itemid: absent, empty, an id of an item in either case, an id of no
\* item, a name of one item, a name of both, a name of none.
ItemIds == { NoString, <<>>, ObjectIds[1], Guid("A", "4", "8"), Guid("f", "4", "b"),
             <<"g", "i">>, <<"i", "t">>, <<"x">> }

\* The id of the i-th attachment of an item.
AttachmentIds == << <<"K", "1">>, <<"k", "2">>, <<"K", "3">>, <<"k", "4">>, <<"K", "5">> >>

\* File names; an attachment may have none.
FileNames == { NoString, <<"a", ".", "t", "x">>, <<"B", ".", "T", "X">>, <<"k", "1">> }

\* Attachment selectors as typed.
Selectors == { <<"K", "1">>, <<"k", "2">>, <<"1">>, <<".", "T">>, <<"B", ".">>, <<"z">> }

\* cipher.attachments == null.
NoAttachments == << [id |-> NoString, fileName |-> NoString] >>

AttachmentsOf(fileNames) ==
    [i \in 1..Len(fileNames) |-> [id |-> AttachmentIds[i], fileName |-> fileNames[i]]]

AttachmentLists ==
    {NoAttachments}
      \cup { AttachmentsOf(f) : f \in UNION { [1..n -> FileNames] : n \in 0..MaxAttachments } }

\* response.status of the fetch.
Statuses == {200, 204, 404, 500}

\* The fetch resolves with a status or rejects.
FetchResults ==
    { [rejected |-> FALSE, status |-> st] : st \in Statuses }
      \cup { [rejected |-> TRUE, status |-> 0] }

\* Nothing was thrown.
NoThrow == [kind |-> "none", text |-> ""]

\* What a collaborator throws: a plain string, or an Error object.
Exceptions == { [kind |-> "string", text |-> "mac failed"],
                [kind |-> "object", text |-> "TypeError: internal"] }

\* What CliUtils.saveFile rejects with when fs.writeFile fails.
CannotSave == [kind |-> "string", text |-> "Cannot save file to "]

\* What happens inside the try block: everything succeeds; or reading the
\* body, getting the key, decrypting or making the directory throws; or
\* writing the file fails.
TryResults ==
    { [step |-> "none", thrown |-> NoThrow] }
      \cup { [step |-> st, thrown |-> e] :
               st \in {"body", "key", "decrypt", "mkdir"}, e \in Exceptions }
      \cup { [step |-> "write", thrown |-> CannotSave] }

\* The fetch and, when it returns 200, the try block that follows it.
Transfers ==
    { x \in [fetched : FetchResults, tried : TryResults] :
         (x.fetched.rejected \/ x.fetched.status # 200) => x.tried.step = "none" }

\* No fetch was made.
NoFetch == [rejected |-> FALSE, status |-> 0]

\* What getAttachment did: the response of the item resolution and its own,
\* the message of an error and the status it carries, what the fetch
\* returned, and how many by-id lookups, listings, fetches, decryptions and
\* file writes were made; `matched` are the attachments the filter kept.
DidAttachment(response, message, resolved, lookups, fetched, fetches, decrypts, writes, matched) ==
    [response |-> response, message |-> message,
     status |-> IF message = "download" THEN fetched.status ELSE 0,
     item |-> resolved.response,
     lookups |-> resolved.lookups + lookups, listings |-> resolved.listings,
     fetched |-> fetched, fetches |-> fetches, decrypts |-> decrypts, writes |-> writes,
     matched |-> matched, thrown |-> NoThrow]

\* Response.success(new MessageResponse('Saved ' + filePath, null)).
saved == [variant |-> "Saved", ids |-> <<>>]

\* Variant: an attachment also matches when its id contains the selector.
filterAttachments_IdContains(attachments, id) ==
    LET Test(a) == \/ indexOf(toLowerCase(a.id), id) > -1
                   \/ (a.fileName # NoString /\ indexOf(toLowerCase(a.fileName), id) > -1)
    IN SelectSeq(attachments, Test)

\* The filter of getAttachment: the id equals the selector, or the file
\* name contains it.
filterAttachments(attachments, id) ==
    LET Test(a) == \/ toLowerCase(a.id) = id
                   \/ (a.fileName # NoString /\ indexOf(toLowerCase(a.fileName), id) > -1)
    IN SelectSeq(attachments, Test)

\* Variant: the catch block puts whatever was thrown in the message.
save_SurfacesAnyException(resolved, lookups, attachments, fetched, tried) ==
    IF tried.step = "none"
    THEN DidAttachment(saved, "", resolved, lookups, fetched, 1, 1, 1, attachments)
    ELSE [DidAttachment(error, tried.thrown.text, resolved, lookups, fetched, 1,
                        IF tried.step \in {"body", "key"} THEN 0 ELSE 1,
                        IF tried.step = "write" THEN 1 ELSE 0, attachments)
            EXCEPT !.thrown = tried.thrown]

\* The try block: read the body, get the key, decrypt, save the file; the
\* catch block answers with the exception when it is a string and with a
\* fixed message otherwise.
save(resolved, lookups, attachments, fetched, tried) ==
    IF tried.step = "none"
    THEN DidAttachment(saved, "", resolved, lookups, fetched, 1, 1, 1, attachments)
    ELSE [DidAttachment(error,
                        IF tried.thrown.kind = "string" THEN tried.thrown.text ELSE "saving",
                        resolved, lookups, fetched, 1,
                        IF tried.step \in {"body", "key"} THEN 0 ELSE 1,
                        IF tried.step = "write" THEN 1 ELSE 0, attachments)
            EXCEPT !.thrown = tried.thrown]

\* Variant: the status of the fetch is not looked at.
download_IgnoresStatus(resolved, lookups, attachments, fetched, tried) ==
    IF fetched.rejected
    THEN DidAttachment(threw, "", resolved, lookups, fetched, 1, 0, 0, attachments)
    ELSE save(resolved, lookups, attachments, fetched, tried)

\* From the fetch on: one fetch, the status test, the try block.
download(resolved, lookups, attachments, fetched, tried) ==
    IF fetched.rejected
    THEN DidAttachment(threw, "", resolved, lookups, fetched, 1, 0, 0, attachments)
    ELSE IF fetched.status # 200
    THEN DidAttachment(error, "download", resolved, lookups, fetched, 1, 0, 0, attachments)
    ELSE save(resolved, lookups, attachments, fetched, tried)

\* Variant: the entitlement is tested before the attachments are filtered.
getAttachment_EntitlementFirst(id, itemid, vault, all, premium, organization, fetched, tried) ==
    IF itemid = NoString \/ itemid = <<>>
    THEN DidAttachment(badRequest, "itemid required", NotRun, 0, NoFetch, 0, 0, 0, <<>>)
    ELSE
    LET resolved == getCipher(toLowerCase(itemid), vault)
        attachments == filterAttachments(all, id)
    IN IF resolved.response.variant # "Found"
       THEN DidAttachment(resolved.response, "", resolved, 0, NoFetch, 0, 0, 0, <<>>)
       ELSE IF ~premium /\ ~organization
       THEN DidAttachment(error, "premium required", resolved, 1, NoFetch, 0, 0, 0, <<>>)
       ELSE IF all = NoAttachments \/ Len(all) = 0
       THEN DidAttachment(error, "no attachments", resolved, 0, NoFetch, 0, 0, 0, <<>>)
       ELSE IF Len(attachments) = 0
       THEN DidAttachment(error, "attachment not found", resolved, 0, NoFetch, 0, 0, 0, attachments)
       ELSE IF Len(attachments) > 1
       THEN DidAttachment(multipleResults(idsOf(attachments)), "", resolved, 0, NoFetch,
                          0, 0, 0, attachments)
       ELSE download(resolved, IF premium THEN 0 ELSE 1, attachments, fetched, tried)

\* Variant: without premium nothing is downloaded, whoever owns the item.
getAttachment_PremiumOnly(id, itemid, vault, all, premium, organization, fetched, tried) ==
    IF itemid = NoString \/ itemid = <<>>
    THEN DidAttachment(badRequest, "itemid required", NotRun, 0, NoFetch, 0, 0, 0, <<>>)
    ELSE
    LET resolved == getCipher(toLowerCase(itemid), vault)
        attachments == filterAttachments(all, id)
    IN IF resolved.response.variant # "Found"
       THEN DidAttachment(resolved.response, "", resolved, 0, NoFetch, 0, 0, 0, <<>>)
       ELSE IF all = NoAttachments \/ Len(all) = 0
       THEN DidAttachment(error, "no attachments", resolved, 0, NoFetch, 0, 0, 0, <<>>)
       ELSE IF Len(attachments) = 0
       THEN DidAttachment(error, "attachment not found", resolved, 0, NoFetch, 0, 0, 0, attachments)
       ELSE IF Len(attachments) > 1
       THEN DidAttachment(multipleResults(idsOf(attachments)), "", resolved, 0, NoFetch,
                          0, 0, 0, attachments)
       ELSE IF ~premium
       THEN DidAttachment(error, "premium required", resolved, 1, NoFetch, 0, 0, 0, attachments)
       ELSE download(resolved, 0, attachments, fetched, tried)

\* GetCommand.getAttachment.
getAttachment(id, itemid, vault, all, premium, organization, fetched, tried) ==
    IF itemid = NoString \/ itemid = <<>>
    THEN DidAttachment(badRequest, "itemid required", NotRun, 0, NoFetch, 0, 0, 0, <<>>)
    ELSE
    LET resolved == getCipher(toLowerCase(itemid), vault)
        attachments == filterAttachments(all, id)
    IN IF resolved.response.variant # "Found"
       THEN DidAttachment(resolved.response, "", resolved, 0, NoFetch, 0, 0, 0, <<>>)
       ELSE IF all = NoAttachments \/ Len(all) = 0
       THEN DidAttachment(error, "no attachments", resolved, 0, NoFetch, 0, 0, 0, <<>>)
       ELSE IF Len(attachments) = 0
       THEN DidAttachment(error, "attachment not found", resolved, 0, NoFetch, 0, 0, 0, attachments)
       ELSE IF Len(attachments) > 1
       THEN DidAttachment(multipleResults(idsOf(attachments)), "", resolved, 0, NoFetch,
                          0, 0, 0, attachments)
       ELSE IF ~premium /\ ~organization
       THEN DidAttachment(error, "premium required", resolved, 1, NoFetch, 0, 0, 0, attachments)
       ELSE download(resolved, IF premium THEN 0 ELSE 1, attachments, fetched, tried)

\* GetCommand.run for `attachment`: the selector is folded to lower case.
GetAttachmentRun(id, itemid, vault, all, premium, organization, fetched, tried) ==
    getAttachment(IF id # NoString THEN toLowerCase(id) ELSE id,
                  itemid, vault, all, premium, organization, fetched, tried)

\* getAttachment has not run.
NotRunAttachment ==
    DidAttachment(NotRun.response, "", NotRun, 0, NoFetch, 0, 0, 0, <<>>)

AttachInit ==
    /\ NotServing
    /\ \E itemid \in ItemIds, id \in Selectors, all \in AttachmentLists,
          premium \in BOOLEAN, organization \in BOOLEAN :
         input = [command |-> "attachment", id |-> id, itemid |-> itemid,
                  vault |-> ObjectsOf(ItemNames), attachments |-> all,
                  premium |-> premium, organization |-> organization]
    /\ out = [attachment |-> NotRunAttachment]

\* bw get attachment <id> --itemid <itemid>
GetAttachment(fetched, tried) ==
    /\ input.command = "attachment"
    /\ out.attachment = NotRunAttachment
    /\ out' = [out EXCEPT !.attachment =
                  GetAttachmentRun(input.id, input.itemid, input.vault, input.attachments,
                                   input.premium, input.organization, fetched, tried)]
    /\ UNCHANGED <<input, serveVars>>

AttachNext == \E t \in Transfers : GetAttachment(t.fetched, t.tried)

\* get attachment over item selectors, attachment selectors and transports.
AttachSpec == AttachInit /\ [][AttachNext]_vars

-----------------------------------------------------------------------------
(* Properties of attachment retrieval *)

\* getAttachment has run.
RanAttachment == out.attachment # NotRunAttachment

\* The attachment matches the selector: same id, or a file name containing
\* it, letter case aside.
Matches(a, selector) ==
    \/ toLowerCase(a.id) = toLowerCase(selector)
    \/ /\ a.fileName # NoString
       /\ Contains(toLowerCase(a.fileName), toLowerCase(selector))

\* The positions of the item's attachments that match the selector.
Matching ==
    IF input.attachments = NoAttachments THEN {}
    ELSE { i \in DOMAIN input.attachments : Matches(input.attachments[i], input.id) }

\* The item was resolved and has attachments.
ItemHasAttachments ==
    /\ out.attachment.item.variant = "Found"
    /\ input.attachments # NoAttachments
    /\ input.attachments # <<>>

\* C17: without premium and with an item of no organization, a selector
\* that matches no attachment gives the not-found error and one that
\* matches two or more gives Ambiguous; neither gives the entitlement
\* error, and the entitlement lookup is not made.
C17_EntitlementCheckedAfterMatching ==
    (/\ RanAttachment
     /\ ~input.premium
     /\ ~input.organization
     /\ ItemHasAttachments
     /\ Cardinality(Matching) # 1)
    => /\ Cardinality(Matching) = 0 =>
             /\ out.attachment.response = error
             /\ out.attachment.message = "attachment not found"
       /\ Cardinality(Matching) >= 2 => out.attachment.response.variant = "Ambiguous"
       /\ out.attachment.message # "premium required"
       /\ out.attachment.lookups = 0 \/ input.itemid \in CanonicalIds
       /\ out.attachment.lookups <= 1

\* An ambiguous selector on a non-premium account and an item of no
\* organization gave Ambiguous.
C17_Witness ==
    /\ RanAttachment
    /\ ~input.premium
    /\ ~input.organization
    /\ Cardinality(Matching) = MaxAttachments
    /\ out.attachment.response.variant = "Ambiguous"

\* C18: an attachment is kept if and only if it matches the selector; the
\* pipeline stops at the first of: the item resolution failing (its
\* response returned as it is), no attachments, no match, more than one
\* match (Ambiguous over the ids of the matches); none of these fetches.
C18_SelectionAndOrderOfFailures ==
    RanAttachment =>
       LET d == out.attachment
       IN /\ d.item.variant \in {"NotFound", "Ambiguous"} =>
                /\ d.response = d.item
                /\ d.fetches = 0
          /\ (/\ d.item.variant = "Found"
              /\ (input.attachments = NoAttachments \/ input.attachments = <<>>)) =>
                /\ d.response = error
                /\ d.message = "no attachments"
                /\ d.fetches = 0
          /\ ItemHasAttachments =>
                /\ \A i \in DOMAIN input.attachments :
                      (\E k \in DOMAIN d.matched : d.matched[k] = input.attachments[i])
                      <=> i \in Matching
                /\ Cardinality(Matching) = 0 =>
                      /\ d.response = error
                      /\ d.message = "attachment not found"
                      /\ d.fetches = 0
                /\ Cardinality(Matching) > 1 =>
                      /\ d.response.variant = "Ambiguous"
                      /\ Len(d.response.ids) = Cardinality(Matching)
                      /\ \A k \in DOMAIN d.response.ids :
                            \E i \in Matching :
                               /\ d.response.ids[k] = AttachmentIds[i]
                               /\ Cardinality({j \in Matching : j < i}) = k - 1
                      /\ d.fetches = 0

\* A selector in upper case matched one attachment by its id and another by
\* its file name, and not a third; the result is Ambiguous over the two.
C18_Witness ==
    /\ RanAttachment
    /\ input.id = <<"K", "1">>
    /\ input.itemid = <<"g", "i">>
    /\ Len(input.attachments) = 3
    /\ Matching = {1, 3}
    /\ input.attachments[3].fileName = <<"k", "1">>
    /\ out.attachment.response = [variant |-> "Ambiguous", ids |-> <<AttachmentIds[1], AttachmentIds[3]>>]

\* C19: once one attachment is selected, an account without premium and
\* an item of no organization get the entitlement error and nothing is
\* fetched, decrypted or written; with premium, or with an item of an
\* organization, the fetch is made.
C19_AuthorizationGate ==
    (RanAttachment /\ ItemHasAttachments /\ Cardinality(Matching) = 1) =>
       IF ~input.premium /\ ~input.organization
       THEN /\ out.attachment.response = error
            /\ out.attachment.message = "premium required"
            /\ out.attachment.fetches = 0
            /\ out.attachment.decrypts = 0
            /\ out.attachment.writes = 0
       ELSE out.attachment.fetches = 1

\* An account without premium fetched the attachment of an item of an
\* organization.
C19_Witness ==
    /\ RanAttachment
    /\ ~input.premium
    /\ input.organization
    /\ out.attachment.fetches = 1
    /\ out.attachment.response = saved

\* C20: a fetch that returns a status outside 200..299 ends the retrieval
\* with an error carrying that status after one fetch; nothing is decrypted
\* and no file is written.
C20_FetchStatusIsTerminal ==
    (/\ RanAttachment
     /\ out.attachment.fetches > 0
     /\ ~out.attachment.fetched.rejected
     /\ out.attachment.fetched.status \notin 200..299)
    => /\ out.attachment.response = error
       /\ out.attachment.message = "download"
       /\ out.attachment.status = out.attachment.fetched.status
       /\ out.attachment.fetches = 1
       /\ out.attachment.decrypts = 0
       /\ out.attachment.writes = 0

\* The fetch returned 404 and the retrieval ended with an error carrying 404.
C20_Witness ==
    /\ RanAttachment
    /\ out.attachment.fetched = [rejected |-> FALSE, status |-> 404]
    /\ out.attachment.status = 404
    /\ out.attachment.response = error

\* C21: an exception thrown while the fetched attachment is read, decrypted
\* or saved is answered, not propagated: the response is an error whose
\* message is the exception when it is a plain string and the fixed message
\* otherwise.
C21_ExceptionsBecomeErrors ==
    (RanAttachment /\ out.attachment.thrown # NoThrow) =>
       /\ out.attachment.response = error
       /\ out.attachment.thrown.kind = "string" =>
             out.attachment.message = out.attachment.thrown.text
       /\ out.attachment.thrown.kind # "string" =>
             /\ out.attachment.message = "saving"
             /\ out.attachment.message # out.attachment.thrown.text

\* Decryption threw an Error object and the response carries the fixed
\* message.
C21_Witness ==
    /\ RanAttachment
    /\ out.attachment.thrown.kind = "object"
    /\ out.attachment.decrypts = 1
    /\ out.attachment.writes = 0
    /\ out.attachment.response = error
    /\ out.attachment.message = "saving"

-----------------------------------------------------------------------------
(* CliUtils.saveFile: where a file is written, and what the write leaves *)

\* path.sep (POSIX).
Sep == "/"

\* The pieces of a path between separators, empty pieces dropped.
RECURSIVE SegmentsFrom(_, _, _)
SegmentsFrom(s, piece, done) ==
    IF s = <<>> THEN (IF piece = <<>> THEN done ELSE Append(done, piece))
    ELSE IF Head(s) = Sep
    THEN SegmentsFrom(Tail(s), <<>>, IF piece = <<>> THEN done ELSE Append(done, piece))
    ELSE SegmentsFrom(Tail(s), Append(piece, Head(s)), done)

Segments(s) == SegmentsFrom(s, <<>>, <<>>)

\* normalizeString of Node's path module: "." pieces are dropped and ".."
\* removes the piece before it; above the start, ".." is kept when
\* allowed and dropped otherwise.
RECURSIVE normalizeSegments(_, _, _)
normalizeSegments(pieces, kept, allowAboveRoot) ==
    IF pieces = <<>> THEN kept
    ELSE LET piece == Head(pieces)
         IN IF piece = <<".">>
            THEN normalizeSegments(Tail(pieces), kept, allowAboveRoot)
            ELSE IF piece = <<".", ".">>
            THEN IF kept # <<>> /\ kept[Len(kept)] # <<".", ".">>
                 THEN normalizeSegments(Tail(pieces), SubSeq(kept, 1, Len(kept) - 1),
                                        allowAboveRoot)
                 ELSE IF allowAboveRoot
                 THEN normalizeSegments(Tail(pieces), Append(kept, piece), allowAboveRoot)
                 ELSE normalizeSegments(Tail(pieces), kept, allowAboveRoot)
            ELSE normalizeSegments(Tail(pieces), Append(kept, piece), allowAboveRoot)

\* The pieces joined by separators.
RECURSIVE joinSegments(_)
joinSegments(pieces) ==
    IF pieces = <<>> THEN <<>>
    ELSE IF Len(pieces) = 1 THEN pieces[1]
    ELSE pieces[1] \o <<Sep>> \o joinSegments(Tail(pieces))

isAbsolute(path) == path # <<>> /\ path[1] = Sep

endsWith(s, c) == s # <<>> /\ s[Len(s)] = c

\* path.normalize.
normalize(path) ==
    IF path = <<>> THEN <<".">>
    ELSE LET inner == joinSegments(normalizeSegments(Segments(path), <<>>, ~isAbsolute(path)))
         IN IF inner = <<>>
            THEN (IF isAbsolute(path) THEN <<Sep>>
                  ELSE IF endsWith(path, Sep) THEN <<".", Sep>> ELSE <<".">>)
            ELSE (IF isAbsolute(path) THEN <<Sep>> ELSE <<>>)
                   \o inner \o (IF endsWith(path, Sep) THEN <<Sep>> ELSE <<>>)

\* path.join of one argument.
join1(a) == normalize(a)

\* path.join of two arguments: the non-empty ones joined by a separator,
\* then normalized.
join2(a, b) ==
    IF a = <<>> THEN normalize(b)
    ELSE IF b = <<>> THEN normalize(a)
    ELSE normalize(a \o <<Sep>> \o b)

\* process.cwd().
Cwd == <<Sep, "w">>

\* path.resolve of one argument: absolute, normalized, no trailing
\* separator.
resolve(path) ==
    LET full == IF isAbsolute(path) THEN path ELSE Cwd \o <<Sep>> \o path
    IN <<Sep>> \o joinSegments(normalizeSegments(Segments(full), <<>>, FALSE))

\* String.prototype.lastIndexOf for one character (from 0; -1 when absent).
lastIndexOf(s, c) ==
    LET at == { i \in 1..Len(s) : s[i] = c }
    IN IF at = {} THEN -1 ELSE (CHOOSE i \in at : \A j \in at : j <= i) - 1

\* String.prototype.substring(0, end).
substring0(s, end) == SubSeq(s, 1, end)

\* The directory and every directory above it, the root aside.
Ancestors(dir) ==
    LET pieces == Segments(dir)
    IN { <<Sep>> \o joinSegments(SubSeq(pieces, 1, n)) : n \in 1..Len(pieces) }

\* Whether saveFile will make the directory: an output is given and, once
\* normalized, contains a separator.
needsMkdir(output) ==
    /\ output # NoString
    /\ output # <<>>
    /\ indexOf(join1(output), <<Sep>>) # -1

\* Variant: an output that ends in a separator is itself the file.
targetOf_DirectoryAsFile(output, defaultFileName) ==
    IF output # NoString /\ output # <<>>
    THEN LET osOutput == join1(output)
         IN IF indexOf(osOutput, <<Sep>>) = -1
            THEN resolve(join2(Cwd, osOutput))
            ELSE resolve(osOutput)
    ELSE resolve(join2(Cwd, defaultFileName))

\* The path saveFile writes: p after path.resolve.
targetOf(output, defaultFileName) ==
    IF output # NoString /\ output # <<>>
    THEN LET osOutput == join1(output)
         IN IF indexOf(osOutput, <<Sep>>) = -1
            THEN resolve(join2(Cwd, osOutput))
            ELSE IF endsWith(osOutput, Sep)
            THEN resolve(join2(osOutput, defaultFileName))
            ELSE resolve(osOutput)
    ELSE resolve(join2(Cwd, defaultFileName))

\* The directory of a path: p.substring(0, p.lastIndexOf(path.sep)).
dirOf(path) == substring0(path, lastIndexOf(path, Sep))

\* How fs.writeFile ends: all of the data written; the file not opened;
\* or an error after `count` characters of the data were written.
WriteResults ==
    { [kind |-> "ok", count |-> 0], [kind |-> "open fails", count |-> 0] }
      \cup { [kind |-> "fails partway", count |-> n] : n \in 0..1 }

\* saveFile has not been called.
NotSaved ==
    [settled |-> "none", path |-> NoString, target |-> NoString, made |-> {},
     content |-> NoString]

\* CliUtils.saveFile on a file system with the directories `dirs` and the
\* content `previous` at the target: the path is worked out, the directory
\* is made when asked for and missing, and the data is written to the
\* path itself.
saveFile(data, output, defaultFileName, dirs, previous, mkdirThrows, written) ==
    LET target == targetOf(output, defaultFileName)
        dir == dirOf(target)
        made == IF needsMkdir(output) /\ dir \notin dirs THEN Ancestors(dir) \ dirs ELSE {}
    IN IF made # {} /\ mkdirThrows
       THEN [settled |-> "threw", path |-> NoString, target |-> target, made |-> {},
             content |-> previous]
       ELSE IF target \in dirs \cup made \/ written.kind = "open fails"
       THEN [settled |-> "rejected", path |-> NoString, target |-> target, made |-> made,
             content |-> previous]
       ELSE IF written.kind = "fails partway"
       THEN [settled |-> "rejected", path |-> NoString, target |-> target, made |-> made,
             content |-> SubSeq(data, 1, written.count)]
       ELSE [settled |-> "resolved", path |-> target, target |-> target, made |-> made,
             content |-> data]

\* --output as typed: none; bare names; names with a directory; names with
\* "." and ".." pieces; directories.
Outputs ==
    { NoString, <<>>,
      <<"a">>, <<"a", ".", "b">>, <<".">>,
      <<"d", Sep, "a">>, <<Sep, "e", Sep, "a">>, <<".", Sep, "a">>,
      <<"d", Sep, ".", ".", Sep, "a">>, <<"d", Sep, Sep, "a">>,
      <<"d", Sep>>, <<Sep, "e", Sep>>, <<"d", Sep, "x", Sep>> }

\* The default file name the caller supplies.
DefaultFileNames == { <<"f", ".", "c">>, <<"k", "1">> }

\* The data to save.
Datas == { <<"c", "s", "v">>, <<"x", "y">> }

\* The directories that exist before: the working directory, and any of
\* two others.
DirectorySets ==
    { {Cwd} \cup more : more \in SUBSET { <<Sep, "w", Sep, "d">>, <<Sep, "e">> } }

SaveInit ==
    /\ NotServing
    /\ \E output \in Outputs, defaultFileName \in DefaultFileNames, data \in Datas,
          dirs \in DirectorySets, previous \in {NoString, <<"o", "l", "d">>} :
         /\ previous # NoString => dirOf(targetOf(output, defaultFileName)) \in dirs
         /\ input = [command |-> "save", output |-> output,
                     defaultFileName |-> defaultFileName, data |-> data, dirs |-> dirs,
                     previous |-> previous]
    /\ out = [save |-> NotSaved]

\* One call of CliUtils.saveFile.
SaveFile(mkdirThrows, written) ==
    /\ input.command = "save"
    /\ out.save = NotSaved
    /\ out' = [out EXCEPT !.save =
                  saveFile(input.data, input.output, input.defaultFileName, input.dirs,
                           input.previous, mkdirThrows, written)]
    /\ UNCHANGED <<input, serveVars>>

SaveNext == \E mkdirThrows \in BOOLEAN, written \in WriteResults : SaveFile(mkdirThrows, written)

\* saveFile over outputs, default names and file systems.
SaveSpec == SaveInit /\ [][SaveNext]_vars

-----------------------------------------------------------------------------
(* Properties of saveFile *)

Saved == out.save # NotSaved

\* C22: after a save that failed, the path written holds what it held
\* before or the complete data, never a part of the data.
C22_NoTruncatedFileAfterFailure ==
    (Saved /\ out.save.settled # "resolved") =>
       out.save.content \in {input.previous, input.data}

\* The path the claim's words give for an output, before it is made
\* absolute.
PlaceFor(output, defaultFileName) ==
    IF output = NoString \/ output = <<>>
    THEN Cwd \o <<Sep>> \o defaultFileName
    ELSE IF \A i \in DOMAIN output : output[i] # Sep
    THEN Cwd \o <<Sep>> \o output
    ELSE IF output[Len(output)] = Sep
    THEN output \o defaultFileName
    ELSE output

\* C23: with no output the file goes to the working directory under the
\* default name; an output without a separator goes to the working
\* directory; an output with a separator is used as given and its
\* directory exists afterwards; an output ending in a separator takes the
\* default name in that directory; the path returned is the path written.
C23_FilePlacement ==
    Saved =>
       /\ out.save.target = resolve(PlaceFor(input.output, input.defaultFileName))
       /\ (/\ input.output # NoString
           /\ \E i \in DOMAIN input.output : input.output[i] = Sep
           /\ out.save.settled # "threw") =>
             dirOf(out.save.target) \in input.dirs \cup out.save.made
       /\ out.save.settled = "resolved" =>
             /\ out.save.path = out.save.target
             /\ out.save.content = input.data

\* A directory-only output whose directories were missing: the file was
\* written under the default name in it and that path was returned.
C23_Witness ==
    /\ Saved
    /\ input.output = <<"d", Sep, "x", Sep>>
    /\ input.defaultFileName = <<"f", ".", "c">>
    /\ input.dirs = {Cwd}
    /\ out.save.settled = "resolved"
    /\ out.save.path = <<Sep, "w", Sep, "d", Sep, "x", Sep, "f", ".", "c">>
    /\ out.save.made = { <<Sep, "w", Sep, "d">>, <<Sep, "w", Sep, "d", Sep, "x">> }

-----------------------------------------------------------------------------
(* Properties of the HTTP layer of the server *)

\* Request r arrives with this Session header, on any of the routes.
Arrives(r, sessionHeader) ==
    \/ GetStatus(r, sessionHeader)
    \/ PostLock(r, sessionHeader)
    \/ \E p \in Passwords : PostUnlock(r, sessionHeader, p)

\* C24: when a request arrives with a non-empty Session header, BW_SESSION
\* is that header once the request has been routed; with no header or an
\* empty one it is what it was; and BW_SESSION changes only by such an
\* arrival or by a newly generated token being published.
C24_SessionPropagation ==
    [][ /\ \A r \in Requests, h \in Headers :
             Arrives(r, h) => session' = (IF h # Null /\ h # "" THEN h ELSE session)
        /\ session' # session =>
             \/ \E r \in Requests : setNewSessionKey(r)
             \/ \E r \in Requests, h \in Headers : Arrives(r, h) /\ h = session' ]_vars

\* After this process had issued a token, a status request carrying another
\* token made that one current.
C24_Witness ==
    /\ session = ForeignToken
    /\ \E r1, r2 \in Requests :
          /\ req[r1].generated # Null
          /\ req[r2].kind = "status"
          /\ Returned(r2)

\* C26: a request whose handler ended because a collaborator threw has
\* been answered: no handler ends without a response having been written.
C26_FailedCollaboratorIsAnswered ==
    \A r \in Requests : req[r].pc = "fault" => req[r].outcome # "none"

-----------------------------------------------------------------------------
(* ServeCommand.run: the routes, their handlers and processResponse *)

\* The literal pieces of the route paths.
wGenerate == <<"g", "e", "n", "e", "r", "a", "t", "e">>
wStatus == <<"s", "t", "a", "t", "u", "s">>
wList == <<"l", "i", "s", "t">>
wSend == <<"s", "e", "n", "d">>
wSync == <<"s", "y", "n", "c">>
wLock == <<"l", "o", "c", "k">>
wUnlock == <<"u", "n", "l", "o", "c", "k">>
wConfirm == <<"c", "o", "n", "f", "i", "r", "m">>
wRestore == <<"r", "e", "s", "t", "o", "r", "e">>
wMove == <<"m", "o", "v", "e">>
wAttachment == <<"a", "t", "t", "a", "c", "h", "m", "e", "n", "t">>
wRemovePassword == <<"r", "e", "m", "o", "v", "e", "-", "p", "a", "s", "s", "w", "o", "r", "d">>

\* A piece of a route path: a literal, or a named parameter.
Lit(word) == [param |-> "", word |-> word]
Param(name) == [param |-> name, word |-> <<>>]

\* server.get / post / put / delete, in the order of registration.
Routes ==
    << [method |-> "GET",    path |-> <<Lit(wGenerate)>>,                 handler |-> "generate"],
       [method |-> "GET",    path |-> <<Lit(wStatus)>>,                   handler |-> "status"],
       [method |-> "GET",    path |-> <<Lit(wList), Param("object")>>,    handler |-> "list"],
       [method |-> "GET",    path |-> <<Lit(wSend), Lit(wList)>>,         handler |-> "sendList"],
       [method |-> "POST",   path |-> <<Lit(wSync)>>,                     handler |-> "sync"],
       [method |-> "POST",   path |-> <<Lit(wLock)>>,                     handler |-> "lock"],
       [method |-> "POST",   path |-> <<Lit(wUnlock)>>,                   handler |-> "unlock"],
       [method |-> "POST",   path |-> <<Lit(wConfirm), Param("object"), Param("id")>>,
                                                                          handler |-> "confirm"],
       [method |-> "POST",   path |-> <<Lit(wRestore), Param("object"), Param("id")>>,
                                                                          handler |-> "restore"],
       [method |-> "POST",   path |-> <<Lit(wMove), Param("id"), Param("organizationId")>>,
                                                                          handler |-> "share"],
       [method |-> "POST",   path |-> <<Lit(wAttachment)>>,               handler |-> "createAttachment"],
       [method |-> "POST",   path |-> <<Lit(wSend), Param("id"), Lit(wRemovePassword)>>,
                                                                          handler |-> "sendRemovePassword"],
       [method |-> "POST",   path |-> <<Param("object")>>,                handler |-> "create"],
       [method |-> "PUT",    path |-> <<Param("object"), Param("id")>>,   handler |-> "edit"],
       [method |-> "GET",    path |-> <<Param("object"), Param("id")>>,   handler |-> "get"],
       [method |-> "DELETE", path |-> <<Param("object"), Param("id")>>,   handler |-> "delete"] >>

\* The send command a handler calls instead when req.params.object is
\* "send".
SendHandlerOf ==
    [ list |-> "sendList", create |-> "sendCreate", edit |-> "sendEdit", get |-> "sendGet",
      delete |-> "sendDelete" ]

\* Express matches a route when the method is the same and every piece
\* matches: a literal whatever the letter case, a parameter any piece.
RouteMatches(route, method, path) ==
    /\ route.method = method
    /\ Len(route.path) = Len(path)
    /\ \A i \in DOMAIN path :
          \/ route.path[i].param # ""
          \/ toLowerCase(route.path[i].word) = toLowerCase(path[i])

\* req.params.object, when the route has such a parameter.
ObjectParam(route, path) ==
    IF \E i \in DOMAIN route.path : route.path[i].param = "object"
    THEN path[CHOOSE i \in DOMAIN route.path : route.path[i].param = "object"]
    ELSE NoString

\* Variant: the last registered route that matches is the one that runs.
PickRoute_Last(matching) == CHOOSE i \in matching : \A j \in matching : j <= i

\* The first registered route that matches is the one that runs: no
\* handler calls next().
PickRoute(matching) == CHOOSE i \in matching : \A j \in matching : i <= j

\* The commands run for a request, in order: none when no route matches,
\* else the command of the route picked, or its send command.
Dispatch(method, path) ==
    LET matching == { i \in DOMAIN Routes : RouteMatches(Routes[i], method, path) }
    IN IF matching = {} THEN <<>>
       ELSE LET route == Routes[PickRoute(matching)]
            IN IF /\ route.handler \in DOMAIN SendHandlerOf
                  /\ ObjectParam(route, path) = wSend
               THEN << SendHandlerOf[route.handler] >>
               ELSE << route.handler >>

\* commandResponse.data: nothing, an object that is serialized, or a
\* FileResponse with its bytes.
NoData == [kind |-> "null", bytes |-> <<>>]
ObjectData == [kind |-> "object", bytes |-> <<>>]
FileResponse(bytes) == [kind |-> "file", bytes |-> bytes]

\* The bytes of a file to send.
Payloads == { <<>>, <<0>>, <<0, 255>>, <<1, 2, 3>> }

\* What a command's run resolves with: a success with or without data or
\* with a file, or a failure with no data or with the list of ids of a
\* multiple-results failure.
CommandResponses ==
    { [success |-> TRUE, data |-> d] : d \in {NoData, ObjectData} }
      \cup { [success |-> TRUE, data |-> FileResponse(b)] : b \in Payloads }
      \cup { [success |-> FALSE, data |-> d] : d \in {NoData, ObjectData} }

\* The command's run rejected instead.
Rejected == [success |-> FALSE, data |-> [kind |-> "rejected", bytes |-> <<>>]]

\* Nothing was written to the response.
NoResponse == [status |-> 0, kind |-> "none", success |-> FALSE, contentLength |-> 0,
               body |-> <<>>]

\* Express's answer when no route matches.
NoRoute == [status |-> 404, kind |-> "html", success |-> FALSE, contentLength |-> 0,
            body |-> <<>>]

\* Variant: the status code is never set.
processResponse_StatusUnset(commandResponse) ==
    IF commandResponse.data.kind = "file"
    THEN [status |-> 200, kind |-> "binary", success |-> commandResponse.success,
          contentLength |-> Len(commandResponse.data.bytes),
          body |-> commandResponse.data.bytes]
    ELSE [status |-> 200, kind |-> "json",
          success |-> commandResponse.success, contentLength |-> 0, body |-> <<>>]

\* ServeCommand.processResponse: 400 for a failure; a FileResponse is
\* written as bytes under a 200 head with their length, anything else as
\* JSON.
processResponse(commandResponse) ==
    IF commandResponse.data.kind = "file"
    THEN [status |-> 200, kind |-> "binary", success |-> commandResponse.success,
          contentLength |-> Len(commandResponse.data.bytes),
          body |-> commandResponse.data.bytes]
    ELSE [status |-> IF ~commandResponse.success THEN 400 ELSE 200, kind |-> "json",
          success |-> commandResponse.success, contentLength |-> 0, body |-> <<>>]

\* What the server did with a request: the commands it ran, whether the
\* handler threw, what the command answered and what was written.
Handled(dispatched, faulted, commandResponse, written) ==
    [dispatched |-> dispatched, threw |-> faulted, commandResponse |-> commandResponse,
     written |-> written]

NotHandled == Handled(<<>>, FALSE, Rejected, NoResponse)

\* A request through the routes: no route, or the route handler, which
\* reads req.file for POST /attachment, awaits the command and hands its
\* response to processResponse.
Serve(method, path, hasFile, commandResponse) ==
    LET dispatched == Dispatch(method, path)
    IN IF dispatched = <<>>
       THEN Handled(dispatched, FALSE, Rejected, NoRoute)
       ELSE IF dispatched[1] = "createAttachment" /\ ~hasFile
       THEN Handled(dispatched, TRUE, Rejected, NoResponse)
       ELSE IF commandResponse = Rejected
       THEN Handled(dispatched, TRUE, Rejected, NoResponse)
       ELSE Handled(dispatched, FALSE, commandResponse, processResponse(commandResponse))

HttpMethods == {"GET", "POST", "PUT", "DELETE"}

\* Pieces of request paths: the route words, two of them in another letter
\* case, an object and an id.
PathPieces ==
    { wStatus, wGenerate, wSync, wLock, wUnlock, wAttachment, wList, wSend,
      <<"L", "O", "C", "K">>, <<"S", "e", "n", "d">>, <<"i", "t", "e", "m">>, <<"x">> }

\* Request paths: one or two pieces, and the three-piece routes.
RequestPaths ==
    [1..1 -> PathPieces] \cup [1..2 -> PathPieces]
      \cup { <<wSend, <<"x">>, wRemovePassword>>, <<wConfirm, <<"i", "t", "e", "m">>, <<"x">>>>,
             <<wRestore, <<"i", "t", "e", "m">>, <<"x">>>>, <<wMove, <<"x">>, <<"x">>>> }

HttpInit ==
    /\ NotServing
    /\ \E method \in HttpMethods, path \in RequestPaths, hasFile \in BOOLEAN :
         input = [command |-> "http", method |-> method, path |-> path, hasFile |-> hasFile]
    /\ out = [http |-> NotHandled]

\* One request served.
HandleRequest(commandResponse) ==
    /\ input.command = "http"
    /\ out.http = NotHandled
    /\ out' = [out EXCEPT !.http =
                  Serve(input.method, input.path, input.hasFile, commandResponse)]
    /\ UNCHANGED <<input, serveVars>>

HttpNext == \E commandResponse \in CommandResponses \cup {Rejected} : HandleRequest(commandResponse)

\* Requests over methods and paths, through the routes and processResponse.
HttpSpec == HttpInit /\ [][HttpNext]_vars

-----------------------------------------------------------------------------
(* Properties of routing and of the written response *)

WasHandled == out.http # NotHandled

\* C25: a failure is written with the one failure status, which is not a
\* 2xx; a success is written with a 2xx; a file is written as bytes with a
\* Content-Length equal to their number, never as JSON.
C25_StatusFollowsSuccess ==
    (WasHandled /\ out.http.written.kind \in {"json", "binary"}) =>
       /\ ~out.http.commandResponse.success =>
             /\ out.http.written.status \notin 200..299
             /\ out.http.written.status = 400
       /\ out.http.commandResponse.success => out.http.written.status \in 200..299
       /\ out.http.commandResponse.data.kind = "file" =>
             /\ out.http.written.kind = "binary"
             /\ out.http.written.contentLength = Len(out.http.commandResponse.data.bytes)
             /\ out.http.written.body = out.http.commandResponse.data.bytes
       /\ out.http.commandResponse.data.kind # "file" => out.http.written.kind = "json"

\* A failure with data was written as JSON under status 400.
C25_Witness ==
    /\ WasHandled
    /\ ~out.http.commandResponse.success
    /\ out.http.commandResponse.data = ObjectData
    /\ out.http.dispatched = <<"get">>
    /\ out.http.written.status = 400
    /\ out.http.written.kind = "json"

\* C27: POST /attachment without a file part is answered with a
\* bad-request envelope: status 400, JSON, success false.
C27_MissingFileIsBadRequest ==
    (/\ WasHandled
     /\ input.method = "POST"
     /\ Len(input.path) = 1
     /\ toLowerCase(input.path[1]) = wAttachment
     /\ ~input.hasFile)
    => /\ ~out.http.threw
       /\ out.http.written.kind = "json"
       /\ out.http.written.status = 400
       /\ ~out.http.written.success

\* The routes with a fixed path, and the command each is for.
FixedHandler(method, path) ==
    LET low == [i \in DOMAIN path |-> toLowerCase(path[i])]
    IN CASE method = "GET" /\ low = <<wStatus>>       -> "status"
         [] method = "GET" /\ low = <<wGenerate>>     -> "generate"
         [] method = "POST" /\ low = <<wSync>>        -> "sync"
         [] method = "POST" /\ low = <<wLock>>        -> "lock"
         [] method = "POST" /\ low = <<wUnlock>>      -> "unlock"
         [] method = "POST" /\ low = <<wAttachment>>  -> "createAttachment"
         [] method = "GET" /\ low = <<wSend, wList>>  -> "sendList"
         [] method = "GET" /\ Len(path) = 2 /\ low[1] = wList ->
               (IF path[2] = wSend THEN "sendList" ELSE "list")
         [] OTHER -> "none"

\* The generic and the send command of the parametric route of a method.
ParametricHandlers ==
    [ POST |-> <<"create", "sendCreate">>, PUT |-> <<"edit", "sendEdit">>,
      GET |-> <<"get", "sendGet">>, DELETE |-> <<"delete", "sendDelete">> ]

\* A request of the shape of a parametric route: POST with one piece, or
\* PUT, GET or DELETE with two.
IsParametric(method, path) == Len(path) = (IF method = "POST" THEN 1 ELSE 2)

\* C28: a request runs one command at most; a request to a fixed path runs
\* the command of that path and none of the parametric ones; any other
\* request of a parametric shape runs the send command when its object is
\* `send` and the generic command otherwise.
C28_OneHandlerFirstMatch ==
    WasHandled =>
       /\ Len(out.http.dispatched) <= 1
       /\ FixedHandler(input.method, input.path) # "none" =>
             /\ out.http.dispatched = << FixedHandler(input.method, input.path) >>
             /\ \A m \in HttpMethods, k \in 1..2 :
                   out.http.dispatched # << ParametricHandlers[m][k] >>
       /\ (FixedHandler(input.method, input.path) = "none"
             /\ IsParametric(input.method, input.path)) =>
             out.http.dispatched =
                << ParametricHandlers[input.method][IF input.path[1] = wSend THEN 2 ELSE 1] >>

\* POST /LOCK ran the lock command.
C28_Witness ==
    /\ WasHandled
    /\ input.method = "POST"
    /\ input.path = << <<"L", "O", "C", "K">> >>
    /\ out.http.dispatched = <<"lock">>
    /\ out.http.written.kind = "json"

-----------------------------------------------------------------------------
(* GetCommand.getTotp *)

\* Response.success(new StringResponse(totp)).
code == [variant |-> "Code", ids |-> <<>>]

\* What getTotp did: the response of the item resolution and its own, the
\* message of an error, and the by-id lookups and listings made.
DidTotp(response, message, resolved, lookups) ==
    [response |-> response, message |-> message, item |-> resolved.response,
     lookups |-> resolved.lookups + lookups, listings |-> resolved.listings]

\* GetCommand.getTotp: the item is resolved from the identifier; it must be
\* a login with a TOTP secret from which a code is generated; without
\* premium, the cipher stored under the identifier must be of an
\* organization that uses TOTP.
getTotp(id, vault, login, hasTotp, generated, premium, organization, organizationUseTotp) ==
    LET resolved == getCipher(id, vault)
    IN IF resolved.response.variant # "Found"
       THEN DidTotp(resolved.response, "", resolved, 0)
       ELSE IF ~login THEN DidTotp(badRequest, "not a login", resolved, 0)
       ELSE IF ~hasTotp THEN DidTotp(error, "no totp", resolved, 0)
       ELSE IF ~generated THEN DidTotp(error, "no code", resolved, 0)
       ELSE IF premium THEN DidTotp(code, "", resolved, 0)
       ELSE LET originalCipher == getById(vault, id)
            IN IF originalCipher = NoObject \/ ~organization \/ ~organizationUseTotp
               THEN DidTotp(error, "premium required", resolved, 1)
               ELSE DidTotp(code, "", resolved, 1)

\* GetCommand.run for `totp`: the identifier is folded to lower case.
GetTotpRun(id, vault, login, hasTotp, generated, premium, organization, organizationUseTotp) ==
    getTotp(IF id # NoString THEN toLowerCase(id) ELSE id, vault, login, hasTotp, generated,
            premium, organization, organizationUseTotp)

\* Identifiers for get totp: the id of the first item in either letter
\* case, a name of that item only in either letter case, a name of both
\* items, a name of none.
TotpIds == { ObjectIds[1], Guid("A", "4", "8"), <<"g", "i">>, <<"G", "I">>,
             <<"i", "t">>, <<"x">> }

\* getTotp has not run.
NotRunTotp == DidTotp(NotRun.response, "", NotRun, 0)

TotpInit ==
    /\ NotServing
    /\ \E login \in BOOLEAN, hasTotp \in BOOLEAN, generated \in BOOLEAN, premium \in BOOLEAN,
          organization \in BOOLEAN, organizationUseTotp \in BOOLEAN :
         input = [command |-> "totp", vault |-> ObjectsOf(ItemNames), login |-> login,
                  hasTotp |-> hasTotp, generated |-> generated, premium |-> premium,
                  organization |-> organization,
                  organizationUseTotp |-> organizationUseTotp]
    /\ out = [totp |-> [id \in TotpIds |-> NotRunTotp]]

\* bw get totp <id>
GetTotp(id) ==
    /\ input.command = "totp"
    /\ out.totp[id] = NotRunTotp
    /\ out' = [out EXCEPT !.totp[id] =
                  GetTotpRun(id, input.vault, input.login, input.hasTotp, input.generated,
                             input.premium, input.organization, input.organizationUseTotp)]
    /\ UNCHANGED <<input, serveVars>>

TotpNext == \E id \in TotpIds : GetTotp(id)

\* get totp on one vault and account, over identifiers of the same item.
TotpSpec == TotpInit /\ [][TotpNext]_vars

\* C29: without premium, two requests for the code of the same item get
\* the same answer, whether the item was named by its id or by a search
\* that matches it alone.
C29_TotpGateIgnoresSelection ==
    \A id1, id2 \in TotpIds :
       (/\ ~input.premium
        /\ out.totp[id1] # NotRunTotp
        /\ out.totp[id2] # NotRunTotp
        /\ out.totp[id1].item.variant = "Found"
        /\ out.totp[id1].item = out.totp[id2].item)
       => /\ out.totp[id1].response = out.totp[id2].response
          /\ out.totp[id1].message = out.totp[id2].message

-----------------------------------------------------------------------------
(* ExportCommand *)

\* exportService.getExport('csv') and exportService.getFileName().
Csv == <<"c", "s", "v">>
ExportFileName == <<"f", ".", "c">>

\* The key the crypto service holds, under which it hashes when called
\* with a null key.
StoredKey == makeKey(ServerPassword)

\* cryptoService.getKeyHash(): nothing, the hash of the master password,
\* the hash of another password.
StoredKeyHashes ==
    { Null, hashPassword(ServerPassword, StoredKey), hashPassword(OldPassword, StoredKey) }

\* Variant: the comparison of the hashes without the null tests.
hashMatches_NoNullTest(storedKeyHash, computed) == storedKeyHash = computed

\* `storedKeyHash != null && keyHash != null && storedKeyHash === keyHash`.
hashMatches(storedKeyHash, computed) ==
    storedKeyHash # Null /\ computed # Null /\ storedKeyHash = computed

\* What ExportCommand.run did: its response and message, the password
\* after the prompt, the hash computed from it, whether the export service
\* was asked for the export, and what saveFile did.
DidExport(response, message, password, computed, exported, file) ==
    [response |-> response, message |-> message, password |-> password,
     keyHash |-> computed, exported |-> exported, saved |-> file]

\* Response.success(res) with res.raw = filePath.
savedResponse == [variant |-> "Saved", ids |-> <<>>]

\* ExportCommand.saveFile: the path of the file saved, or the text of
\* what saveFile threw or rejected with.
exportSaveFile(password, computed, csv, output, dirs, mkdirThrows, written) ==
    LET file == saveFile(csv, output, ExportFileName, dirs, NoString, mkdirThrows, written)
    IN IF file.settled = "resolved"
       THEN DidExport(savedResponse, "saved", password, computed, TRUE, file)
       ELSE DidExport(error, IF file.settled = "rejected" THEN CannotSave.text
                             ELSE "Error: mkdir", password, computed, TRUE, file)

\* ExportCommand.run: a blank password is asked for; still blank, it is a
\* bad request; the export is made and saved when the hash of the password
\* is the stored one.
ExportCommandRun(password, answer, hashed, storedKeyHash, output, dirs, mkdirThrows, written) ==
    LET asked == IF PasswordMissing(password) THEN answer ELSE password
    IN IF PasswordMissing(asked)
       THEN DidExport(badRequest, "password required", asked, Null, FALSE, NotSaved)
       ELSE LET computed == IF hashed THEN hashPassword(asked, StoredKey) ELSE Null
            IN IF hashMatches(storedKeyHash, computed)
               THEN exportSaveFile(asked, computed, Csv, output, dirs, mkdirThrows, written)
               ELSE DidExport(error, "invalid master password", asked, computed, FALSE,
                              NotSaved)

\* ExportCommand.run has not run.
NotExported == DidExport(NotRun.response, "", Null, Null, FALSE, NotSaved)

\* --output of bw export: none, a file in a directory, a directory.
ExportOutputs == { NoString, <<"d", Sep, "a">>, <<"d", Sep, "x", Sep>> }

ExportInit ==
    /\ NotServing
    /\ \E password \in Passwords, storedKeyHash \in StoredKeyHashes, output \in ExportOutputs :
         input = [command |-> "export", password |-> password,
                  storedKeyHash |-> storedKeyHash, output |-> output, dirs |-> {Cwd}]
    /\ out = [export |-> NotExported]

\* bw export [password] --output <output>
Export(answer, hashed, mkdirThrows, written) ==
    /\ input.command = "export"
    /\ out.export = NotExported
    /\ out' = [out EXCEPT !.export =
                  ExportCommandRun(input.password, answer, hashed, input.storedKeyHash,
                                   input.output, input.dirs, mkdirThrows, written)]
    /\ UNCHANGED <<input, serveVars>>

ExportNext ==
    \E answer \in Passwords, hashed \in BOOLEAN, mkdirThrows \in BOOLEAN,
       written \in WriteResults : Export(answer, hashed, mkdirThrows, written)

\* bw export over passwords, stored hashes and outputs.
ExportSpec == ExportInit /\ [][ExportNext]_vars

(* Properties of ExportCommand *)

Exported == out.export # NotExported

\* The file system after the run holds something new: a directory made or
\* content at the target.
TouchedFiles == out.export.saved.made # {} \/ out.export.saved.content # NoString

\* C30: the export is asked for and a file written only when the password
\* is not blank and its hash is the stored hash, both present; a blank
\* password is a bad request and an absent or different hash the invalid
\* master password error, in both cases without export or file.
C30_ExportNeedsMatchingHash ==
    Exported =>
       LET password == out.export.password
           matching == /\ ~PasswordMissing(password)
                       /\ input.storedKeyHash # Null
                       /\ out.export.keyHash # Null
                       /\ input.storedKeyHash = hashPassword(password, StoredKey)
       IN /\ (out.export.exported \/ TouchedFiles \/ out.export.saved # NotSaved) => matching
          /\ PasswordMissing(password) =>
                /\ out.export.response = badRequest
                /\ out.export.message = "password required"
          /\ (~PasswordMissing(password) /\ ~matching) =>
                /\ out.export.response = error
                /\ out.export.message = "invalid master password"

\* An export refused for a stored hash that is absent while the hash of
\* the password is too.
C30_Witness ==
    /\ Exported
    /\ input.storedKeyHash = Null
    /\ out.export.password = ServerPassword
    /\ out.export.keyHash = Null
    /\ out.export.response = error
    /\ ~out.export.exported

=============================================================================
